---- MODULE Spec2Model ----
(***************************************************************************)
(* manadj: cross-library reconciliation (playlist sync, tag sync) between   *)
(* the primary library (manadj), Engine DJ and Rekordbox.                   *)
(*                                                                          *)
(* Tables are sequences of rows in table (insertion) order.  A file path is *)
(* a record [dir, base]; pathlib's Path(p).name is the base component.  A   *)
(* playlist name or title is a sequence of characters, so that splitting a  *)
(* flattened name on '>' and joining titles with ' > ' are computed.        *)
(***************************************************************************)
EXTENDS Integers, Sequences, FiniteSets, TLC

VARIABLES manadj, engine, rekordbox, engine_db, rb_db, last, prev, steps

vars == <<manadj, engine, rekordbox, engine_db, rb_db, last, prev, steps>>

(* ------------------------------ bounds --------------------------------- *)

\* operations performed in one behaviour
MaxSteps == 2

(* ------------------------------ helpers -------------------------------- *)

MaxOf(S) == CHOOSE x \in S : \A y \in S : y <= x

MinOf(S) == CHOOSE x \in S : \A y \in S : x <= y

Range(s) == {s[i] : i \in DOMAIN s}

\* max(id) + 1 over a table (AUTOINCREMENT-free SQLite rowid allocation)
NextId(rows) == IF rows = <<>> THEN 1 ELSE MaxOf({rows[i].id : i \in DOMAIN rows}) + 1

(* ------------------------------- paths --------------------------------- *)

\* a NULL / empty path column
NoPath == [dir |-> "", base |-> ""]

P(d, b) == [dir |-> d, base |-> b]

\* pathlib.Path(p).name
PathName(p) == p.base

(* --------------------- backend/sync_common/matching -------------------- *)

\* index_tracks_by_path; path_getter and filename_getter are given as the
\* values they return for tracks[1], tracks[2], ...  Both dicts are built by
\* assignment in iteration order: the last track with a key wins.
IndexTracksByPath(tracks, path_getter, filename_getter) ==
    LET paths == {path_getter[i] : i \in DOMAIN tracks} \ {NoPath}
        named == {i \in DOMAIN tracks : filename_getter[i] # NoPath}
        names == {PathName(filename_getter[i]) : i \in named}
    IN  [by_path |-> [p \in paths |->
                        tracks[MaxOf({i \in DOMAIN tracks : path_getter[i] = p})]],
         by_filename |-> [n \in names |->
                        tracks[MaxOf({i \in named : PathName(filename_getter[i]) = n})]]]

\* a faulty matcher that asks the basename index first; C12 must not hold
\* with it
MatchTrackFilenameFirst(source_path, target_by_path, target_by_filename) ==
    IF PathName(source_path) \in DOMAIN target_by_filename
    THEN <<target_by_filename[PathName(source_path)]>>
    ELSE IF source_path \in DOMAIN target_by_path
         THEN <<target_by_path[source_path]>>
         ELSE <<>>

\* the matched track as a one-element sequence, <<>> for None
MatchTrackTwoTier(source_path, target_by_path, target_by_filename) ==
    IF source_path \in DOMAIN target_by_path
    THEN <<target_by_path[source_path]>>
    ELSE IF PathName(source_path) \in DOMAIN target_by_filename
         THEN <<target_by_filename[PathName(source_path)]>>
         ELSE <<>>

\* ORDER BY key, ties in table order
SortBy(rows, key) ==
    LET n == Len(rows)
        rank(i) == Cardinality({j \in 1..n : \/ key[rows[j]] < key[rows[i]]
                                             \/ (key[rows[j]] = key[rows[i]] /\ j < i)}) + 1
    IN  [k \in 1..n |-> rows[CHOOSE i \in 1..n : rank(i) = k]]

\* query(...).filter_by(id=...).first() as a sequence of at most one row
ById(rows, id) == LET Test(r) == r.id = id IN SelectSeq(rows, Test)

ByID(rows, id) == LET Test(r) == r.ID = id IN SelectSeq(rows, Test)

(* --------------------------- playlist names ---------------------------- *)

\* str.split(c)
RECURSIVE SplitOn(_, _)
SplitOn(s, c) ==
    IF \A i \in DOMAIN s : s[i] # c
    THEN <<s>>
    ELSE LET i == MinOf({j \in DOMAIN s : s[j] = c})
         IN  <<SubSeq(s, 1, i - 1)>> \o SplitOn(SubSeq(s, i + 1, Len(s)), c)

\* str.strip()
RECURSIVE Strip(_)
Strip(s) ==
    IF s # <<>> /\ Head(s) = " " THEN Strip(Tail(s))
    ELSE IF s # <<>> /\ s[Len(s)] = " " THEN Strip(SubSeq(s, 1, Len(s) - 1))
    ELSE s

\* ' > '.join(parts)
RECURSIVE JoinNames(_)
JoinNames(parts) ==
    IF parts = <<>> THEN <<>>
    ELSE IF Len(parts) = 1 THEN parts[1]
    ELSE parts[1] \o <<" ", ">", " ">> \o JoinNames(Tail(parts))

ParseHierarchy(playlist_name) ==
    LET raw == SplitOn(playlist_name, ">")
        parts == [i \in DOMAIN raw |-> Strip(raw[i])]
    IN  IF Len(parts) = 1
        THEN [parent_names |-> <<>>, leaf_name |-> parts[1]]
        ELSE [parent_names |-> SubSeq(parts, 1, Len(parts) - 1),
              leaf_name |-> parts[Len(parts)]]

(* ------------------------- playlist readers ---------------------------- *)

TrackReference(path, filename, track_id) ==
    [path |-> path, filename |-> filename, track_id |-> track_id]

PlaylistInfo(name, tracks, source, source_id) ==
    [name |-> name, tracks |-> tracks, source |-> source, source_id |-> source_id]

\* ManAdjPlaylistReader.get_playlist_tracks: rows by position, tracks that exist
ManadjGetPlaylistTracks(db, playlist_id) ==
    LET Mine(pt) == pt.playlist_id = playlist_id
        Pos(pt) == pt.position
        playlist_tracks == SortBy(SelectSeq(db.playlist_tracks, Mine), [row \in Range(SelectSeq(db.playlist_tracks, Mine)) |-> Pos(row)])
        Has(pt) == ById(db.tracks, pt.track_id) # <<>>
        kept == SelectSeq(playlist_tracks, Has)
    IN  [i \in DOMAIN kept |->
            LET track == ById(db.tracks, kept[i].track_id)[1]
            IN  TrackReference(track.filename, PathName(track.filename), kept[i].track_id)]

ManadjGetAllPlaylists(db) ==
    LET Ord(pl) == pl.display_order
        playlists == SortBy(db.playlists, [row \in Range(db.playlists) |-> Ord(row)])
    IN  [i \in DOMAIN playlists |->
            PlaylistInfo(playlists[i].name, ManadjGetPlaylistTracks(db, playlists[i].id),
                         "manadj", playlists[i].id)]

\* EngineDJDatabase.get_playlist_hierarchy_name: titles from the root down
RECURSIVE EngineHierarchyParts(_, _, _)
EngineHierarchyParts(db, current_id, visited) ==
    IF current_id = 0 \/ current_id \in visited \/ ById(db.Playlist, current_id) = <<>>
    THEN <<>>
    ELSE LET playlist == ById(db.Playlist, current_id)[1]
         IN  (IF playlist.parentListId # 0
              THEN EngineHierarchyParts(db, playlist.parentListId, visited \cup {current_id})
              ELSE <<>>) \o <<playlist.title>>

EngineGetPlaylistHierarchyName(db, playlist_id) ==
    JoinNames(EngineHierarchyParts(db, playlist_id, {}))

\* the walk along nextEntityId, guarded by the visited set
RECURSIVE EngineTraverse(_, _, _)
EngineTraverse(entities, current, visited) ==
    IF current.id \in visited THEN <<>>
    ELSE <<current>> \o
         (IF current.nextEntityId # 0 /\ ById(entities, current.nextEntityId) # <<>>
          THEN EngineTraverse(entities, ById(entities, current.nextEntityId)[1],
                              visited \cup {current.id})
          ELSE <<>>)

\* EnginePlaylistReader.get_playlist_tracks, the linked-list part
EngineOrderedEntities(db, playlist_id) ==
    LET Mine(e) == e.listId = playlist_id
        entities == SelectSeq(db.PlaylistEntity, Mine)
        entity_by_next == {entities[i].nextEntityId : i \in DOMAIN entities} \ {0}
        IsHead(e) == e.id \notin entity_by_next
        heads == SelectSeq(entities, IsHead)
        first_entity == IF heads # <<>> THEN heads[1] ELSE entities[1]
    IN  IF entities = <<>> THEN <<>> ELSE EngineTraverse(entities, first_entity, {})

EngineGetPlaylistTracks(db, playlist_id) ==
    LET ordered_entities == EngineOrderedEntities(db, playlist_id)
        Has(e) == /\ ById(db.Track, e.trackId) # <<>>
                  /\ ById(db.Track, e.trackId)[1].path # NoPath
        kept == SelectSeq(ordered_entities, Has)
    IN  [i \in DOMAIN kept |->
            LET track == ById(db.Track, kept[i].trackId)[1]
            IN  TrackReference(track.path,
                               PathName(IF track.filename # NoPath THEN track.filename
                                        ELSE track.path),
                               kept[i].trackId)]

\* the title 'manadj Tags' is one character of the alphabet
TagRootTitle == <<"manadj Tags">>

StartsWith(s, prefix) == Len(s) >= Len(prefix) /\ SubSeq(s, 1, Len(prefix)) = prefix

EngineGetAllPlaylists(db) ==
    LET Shown(pl) == /\ pl.title # <<>>
                     /\ pl.title[1] # "_"
                     /\ pl.isPersisted
                     /\ ~StartsWith(EngineGetPlaylistHierarchyName(db, pl.id), TagRootTitle)
        playlists == SelectSeq(db.Playlist, Shown)
    IN  [i \in DOMAIN playlists |->
            PlaylistInfo(EngineGetPlaylistHierarchyName(db, playlists[i].id),
                         EngineGetPlaylistTracks(db, playlists[i].id),
                         "engine", playlists[i].id)]

\* RekordboxPlaylistReader.flatten_hierarchy_name
RECURSIVE RekordboxHierarchyParts(_, _, _)
RekordboxHierarchyParts(db, current_id, visited) ==
    IF current_id = "" \/ current_id \in visited \/ ByID(db.DjmdPlaylist, current_id) = <<>>
    THEN <<>>
    ELSE LET playlist == ByID(db.DjmdPlaylist, current_id)[1]
         IN  (IF playlist.ParentID # "" /\ playlist.ParentID # "0"
              THEN RekordboxHierarchyParts(db, playlist.ParentID, visited \cup {current_id})
              ELSE <<>>)
             \o (IF playlist.Name # <<>> THEN <<playlist.Name>> ELSE <<>>)

RekordboxFlattenHierarchyName(db, playlist_id) ==
    LET parts == RekordboxHierarchyParts(db, playlist_id, {})
    IN  IF parts # <<>> THEN JoinNames(parts) ELSE <<"Unknown">>

RekordboxGetPlaylistTracks(db, playlist_id) ==
    LET Mine(sp) == sp.PlaylistID = playlist_id
        No(sp) == sp.TrackNo
        song_playlists == SortBy(SelectSeq(db.DjmdSongPlaylist, Mine), [row \in Range(SelectSeq(db.DjmdSongPlaylist, Mine)) |-> No(row)])
        Has(sp) == /\ ByID(db.DjmdContent, sp.ContentID) # <<>>
                   /\ ByID(db.DjmdContent, sp.ContentID)[1].FolderPath # NoPath
        kept == SelectSeq(song_playlists, Has)
    IN  [i \in DOMAIN kept |->
            LET content == ByID(db.DjmdContent, kept[i].ContentID)[1]
            IN  TrackReference(content.FolderPath, PathName(content.FolderPath),
                               kept[i].ContentID)]

RekordboxGetAllPlaylists(db) ==
    LET Named(pl) == pl.Name # <<>>
        playlists == SelectSeq(db.DjmdPlaylist, Named)
    IN  [i \in DOMAIN playlists |->
            PlaylistInfo(RekordboxFlattenHierarchyName(db, playlists[i].ID),
                         RekordboxGetPlaylistTracks(db, playlists[i].ID),
                         "rekordbox", playlists[i].ID)]

\* PlaylistSyncManager.load_all_playlists on the given library states
LoadAllPlaylists(m, e, r, has_engine, has_rb) ==
    [manadj |-> ManadjGetAllPlaylists(m),
     engine |-> IF has_engine THEN EngineGetAllPlaylists(e) ELSE <<>>,
     rekordbox |-> IF has_rb THEN RekordboxGetAllPlaylists(r) ELSE <<>>]

(* --------------------------- enginedj/playlist ------------------------- *)

\* a faulty lookup that never finds the playlist; C6 must not hold with it
EngineFindPlaylistNever(db, title, parent_id) == <<>>

\* find_playlist_by_title_and_parent: .first() as a sequence of at most one row
EngineFindPlaylistByTitleAndParent(db, title, parent_id) ==
    LET Test(pl) == pl.title = title /\ pl.parentListId = parent_id
        found == SelectSeq(db.Playlist, Test)
    IN  IF found = <<>> THEN <<>> ELSE <<found[1]>>

\* the PlaylistEntity rows for edj_tracks, linked in order, ids from first_id
EngineNewEntities(playlist_id, edj_tracks, first_id) ==
    [i \in DOMAIN edj_tracks |->
        [id |-> first_id + i - 1,
         listId |-> playlist_id,
         trackId |-> edj_tracks[i].id,
         nextEntityId |-> IF i < Len(edj_tracks) THEN first_id + i ELSE 0]]

\* UniqueConstraint(listId, databaseUuid, trackId): the flush raises IntegrityError
EngineEntitiesUnique(edj_tracks) ==
    \A i, j \in DOMAIN edj_tracks : edj_tracks[i].id = edj_tracks[j].id => i = j

EngineUpdatePlaylistTracks(db, playlist_id, edj_tracks) ==
    LET Others(e) == e.listId # playlist_id
        remaining == SelectSeq(db.PlaylistEntity, Others)
    IN  [db EXCEPT !.PlaylistEntity =
            remaining \o EngineNewEntities(playlist_id, edj_tracks, NextId(remaining))]

\* create_or_update_playlist: [db, id, was_created, raised]
EngineCreateOrUpdatePlaylist(db, title, parent_id, edj_tracks) ==
    LET existing == EngineFindPlaylistByTitleAndParent(db, title, parent_id)
        playlist_id == NextId(db.Playlist)
        IsPrev(pl) == pl.parentListId = parent_id /\ pl.nextListId = 0
        prev_playlist == SelectSeq(db.Playlist, IsPrev)
        linked == [i \in DOMAIN db.Playlist |->
                     IF prev_playlist # <<>> /\ db.Playlist[i].id = prev_playlist[1].id
                     THEN [db.Playlist[i] EXCEPT !.nextListId = playlist_id]
                     ELSE db.Playlist[i]]
        playlist == [id |-> playlist_id, title |-> title, parentListId |-> parent_id,
                     nextListId |-> 0, isPersisted |-> TRUE]
    IN  IF ~EngineEntitiesUnique(edj_tracks)
        THEN [db |-> db, id |-> 0, was_created |-> FALSE, raised |-> TRUE]
        ELSE IF existing # <<>>
        THEN [db |-> EngineUpdatePlaylistTracks(db, existing[1].id, edj_tracks),
              id |-> existing[1].id, was_created |-> FALSE, raised |-> FALSE]
        ELSE [db |-> [db EXCEPT
                        !.Playlist = linked \o <<playlist>>,
                        !.PlaylistEntity = db.PlaylistEntity \o
                            EngineNewEntities(playlist_id, edj_tracks,
                                              NextId(db.PlaylistEntity))],
              id |-> playlist_id, was_created |-> TRUE, raised |-> FALSE]

(* --------------------------- rekordbox/playlist ------------------------ *)

\* the ParentID pyrekordbox and Rekordbox give a top-level playlist
RootID == "root"

\* Rekordbox6Database.generate_unused_id: an ID no row has
RekordboxNewID(db) == ToString(db.next_id)

\* find_playlist_by_name_and_parent: the first playlist with the name whose
\* (ParentID or "") equals parent_id
RekordboxFindPlaylistByNameAndParent(db, name, parent_id) ==
    LET Test(pl) == pl.Name = name /\ pl.ParentID = parent_id
        found == SelectSeq(db.DjmdPlaylist, Test)
    IN  IF found = <<>> THEN <<>> ELSE <<found[1]>>

RekordboxNewSongs(db, playlist_id, rb_tracks, first_no) ==
    [i \in DOMAIN rb_tracks |->
        [ID |-> ToString(db.next_id + i - 1),
         PlaylistID |-> playlist_id,
         ContentID |-> rb_tracks[i].ID,
         TrackNo |-> first_no + i - 1]]

\* update_playlist_tracks: delete the rows, insert TrackNo 1..n, bump Seq
RekordboxUpdatePlaylistTracks(db, playlist, rb_tracks) ==
    LET Others(sp) == sp.PlaylistID # playlist.ID
    IN  [db EXCEPT
            !.DjmdSongPlaylist = SelectSeq(db.DjmdSongPlaylist, Others)
                                 \o RekordboxNewSongs(db, playlist.ID, rb_tracks, 1),
            !.DjmdPlaylist = [i \in DOMAIN db.DjmdPlaylist |->
                                IF db.DjmdPlaylist[i].ID = playlist.ID
                                THEN [db.DjmdPlaylist[i] EXCEPT !.Seq = @ + 1]
                                ELSE db.DjmdPlaylist[i]],
            !.next_id = @ + Len(rb_tracks)]

\* create_or_update_playlist: [db, ID, was_created].  create_playlist(name) makes
\* a top-level playlist (ParentID 'root', Seq after its siblings); add_to_playlist
\* appends with TrackNo = count + 1.
RekordboxCreateOrUpdatePlaylist(db, name, parent_id, rb_tracks) ==
    LET existing == RekordboxFindPlaylistByNameAndParent(db, name, parent_id)
        new_id == RekordboxNewID(db)
        IsRoot(pl) == pl.ParentID = RootID
        playlist == [ID |-> new_id, Name |-> name,
                     ParentID |-> IF parent_id # "" THEN parent_id ELSE RootID,
                     Seq |-> Len(SelectSeq(db.DjmdPlaylist, IsRoot)) + 1]
        created == [db EXCEPT !.DjmdPlaylist = @ \o <<playlist>>, !.next_id = @ + 1]
    IN  IF existing # <<>>
        THEN [db |-> RekordboxUpdatePlaylistTracks(db, existing[1], rb_tracks),
              ID |-> existing[1].ID, was_created |-> FALSE]
        ELSE [db |-> [created EXCEPT
                        !.DjmdSongPlaylist =
                            @ \o RekordboxNewSongs(created, new_id, rb_tracks, 1),
                        !.next_id = @ + Len(rb_tracks)],
              ID |-> new_id, was_created |-> TRUE]

(* ---------------------- backend/playlists/sync_manager ----------------- *)

LibraryNames == {"manadj", "engine", "rekordbox"}

\* the loop of _match_tracks_to_*: matched target tracks and unmatched filenames
RECURSIVE MatchRefs(_, _)
MatchRefs(track_refs, index) ==
    IF track_refs = <<>>
    THEN [matched |-> <<>>, unmatched |-> <<>>]
    ELSE LET track == MatchTrackTwoTier(Head(track_refs).path,
                                        index.by_path, index.by_filename)
             rest == MatchRefs(Tail(track_refs), index)
         IN  IF track # <<>>
             THEN [matched |-> track \o rest.matched, unmatched |-> rest.unmatched]
             ELSE [matched |-> rest.matched,
                   unmatched |-> <<Head(track_refs).filename>> \o rest.unmatched]

AllUnmatched(track_refs) ==
    [matched |-> <<>>,
     unmatched |-> [i \in DOMAIN track_refs |-> track_refs[i].filename]]

MatchTracksToManadj(m, track_refs) ==
    LET Filename(t) == t.filename
    IN  MatchRefs(track_refs, IndexTracksByPath(m.tracks, [i \in DOMAIN m.tracks |-> Filename(m.tracks[i])],
                                    [i \in DOMAIN m.tracks |-> Filename(m.tracks[i])]))

MatchTracksToEngine(e, has_engine, track_refs) ==
    LET Path(t) == t.path
    IN  IF ~has_engine THEN AllUnmatched(track_refs)
        ELSE MatchRefs(track_refs, IndexTracksByPath(e.Track, [i \in DOMAIN e.Track |-> Path(e.Track[i])],
                                    [i \in DOMAIN e.Track |-> Path(e.Track[i])]))

MatchTracksToRekordbox(r, has_rb, track_refs) ==
    LET FolderPath(t) == t.FolderPath
    IN  IF ~has_rb THEN AllUnmatched(track_refs)
        ELSE MatchRefs(track_refs, IndexTracksByPath(r.DjmdContent,
                                    [i \in DOMAIN r.DjmdContent |-> FolderPath(r.DjmdContent[i])],
                                    [i \in DOMAIN r.DjmdContent |-> FolderPath(r.DjmdContent[i])]))

\* PlaylistTrack rows at positions 0..n-1
ManadjNewRows(playlist_id, tracks, first_id) ==
    [i \in DOMAIN tracks |->
        [id |-> first_id + i - 1, playlist_id |-> playlist_id,
         track_id |-> tracks[i].id, position |-> i - 1]]

\* _sync_to_manadj: [db, was_created, raised].  One transaction: a commit that
\* raises leaves the database as it was.
SyncToManadj(m, playlist_name, tracks, fault) ==
    LET Named(pl) == pl.name = playlist_name
        existing == SelectSeq(m.playlists, Named)
        Others(pt) == pt.playlist_id # existing[1].id
        remaining == SelectSeq(m.playlist_tracks, Others)
        new_id == NextId(m.playlists)
    IN  IF fault THEN [db |-> m, was_created |-> FALSE, raised |-> TRUE]
        ELSE IF existing # <<>>
        THEN [db |-> [m EXCEPT !.playlist_tracks =
                        remaining \o ManadjNewRows(existing[1].id, tracks,
                                                   NextId(remaining))],
              was_created |-> FALSE, raised |-> FALSE]
        ELSE [db |-> [m EXCEPT
                        !.playlists = @ \o <<[id |-> new_id, name |-> playlist_name,
                                              display_order |-> 0]>>,
                        !.playlist_tracks =
                            @ \o ManadjNewRows(new_id, tracks, NextId(@))],
              was_created |-> TRUE, raised |-> FALSE]

\* _sync_to_engine: ValueError without a database; with one, engine_db.session()
\* and engine_db.db_uuid are not attributes of EngineDJDatabase, so the first
\* `with self.engine_db.session()` (in _ensure_parent_playlists_engine for a
\* nested name, in _sync_to_engine for a root name) raises AttributeError
\* before any row is written.
SyncToEngine(e, has_engine, playlist_name, tracks, fault) ==
    [db |-> e, was_created |-> FALSE, raised |-> TRUE]

\* _ensure_parent_playlists_rekordbox: [db, parent_id]
RECURSIVE EnsureParentPlaylistsRekordbox(_, _, _)
EnsureParentPlaylistsRekordbox(r, parent_names, current_parent_id) ==
    IF parent_names = <<>>
    THEN [db |-> r, parent_id |-> current_parent_id]
    ELSE LET existing == RekordboxFindPlaylistByNameAndParent(
                             r, Head(parent_names), current_parent_id)
             made == RekordboxCreateOrUpdatePlaylist(
                         r, Head(parent_names), current_parent_id, <<>>)
         IN  IF existing # <<>>
             THEN EnsureParentPlaylistsRekordbox(r, Tail(parent_names), existing[1].ID)
             ELSE EnsureParentPlaylistsRekordbox(made.db, Tail(parent_names), made.ID)

\* _sync_to_rekordbox: the ancestors are committed by
\* _ensure_parent_playlists_rekordbox before the leaf is written; a leaf write
\* that raises leaves them in the database.
SyncToRekordbox(r, has_rb, playlist_name, tracks, fault) ==
    LET parsed == ParseHierarchy(playlist_name)
        parents == EnsureParentPlaylistsRekordbox(r, parsed.parent_names, "")
        leaf == RekordboxCreateOrUpdatePlaylist(
                    parents.db, parsed.leaf_name, parents.parent_id, tracks)
    IN  IF ~has_rb THEN [db |-> r, was_created |-> FALSE, raised |-> TRUE]
        ELSE IF fault THEN [db |-> parents.db, was_created |-> FALSE, raised |-> TRUE]
        ELSE [db |-> leaf.db, was_created |-> leaf.was_created, raised |-> FALSE]

SyncResult(target, success, created, tracks_synced, tracks_unmatched, error) ==
    [target |-> target, success |-> success, created |-> created,
     tracks_synced |-> tracks_synced, tracks_unmatched |-> tracks_unmatched,
     error |-> error]

\* the first playlist of the source with the name, <<>> when there is none
FindSourcePlaylist(all_playlists, source, playlist_name) ==
    LET Named(pl) == pl.name = playlist_name
        found == SelectSeq(all_playlists[source], Named)
    IN  IF found = <<>> THEN <<>> ELSE <<found[1]>>

MatchTracksToTarget(m, e, r, has_engine, has_rb, target, track_refs) ==
    IF target = "manadj" THEN MatchTracksToManadj(m, track_refs)
    ELSE IF target = "engine" THEN MatchTracksToEngine(e, has_engine, track_refs)
    ELSE MatchTracksToRekordbox(r, has_rb, track_refs)

\* `if unmatched and not ignore_missing_tracks`
BlocksOnUnmatched(unmatched, ignore_missing_tracks) ==
    unmatched # <<>> /\ ~ignore_missing_tracks

\* the value of a call that raised instead of returning
NoResult == SyncResult("", FALSE, FALSE, 0, <<>>, "raised")

\* _match_tracks_to_engine calls engine_db.get_track(), which EngineDJDatabase
\* does not define: with a configured Engine DJ database the AttributeError
\* leaves sync_playlist_to_target (the call is outside its try block).
MatchRaises(has_engine, target) == target = "engine" /\ has_engine

\* the libraries as they are, with the value of the call
Unwritten(m, e, r, result, raised) ==
    [manadj |-> m, engine |-> e, rekordbox |-> r, result |-> result, raised |-> raised]

\* the write of sync_playlist_to_target (lines 262-296); w: what _sync_to_<target>
\* did, [db, was_created, raised]
SyncMatchedTracks(m, e, r, target, mt, w) ==
    [manadj |-> IF target = "manadj" THEN w.db ELSE m,
     engine |-> IF target = "engine" THEN w.db ELSE e,
     rekordbox |-> IF target = "rekordbox" THEN w.db ELSE r,
     result |-> IF w.raised
                THEN SyncResult(target, FALSE, FALSE, 0, mt.unmatched, "exception")
                ELSE SyncResult(target, TRUE, w.was_created, Len(mt.matched),
                                mt.unmatched, ""),
     raised |-> FALSE]

\* sync_playlist_to_target from the check for unmatched tracks on; mt: what
\* _match_tracks_to_<target> returned
SyncAfterMatching(m, e, r, has_engine, has_rb, playlist_name, target, ignore_missing_tracks, dry_run, fault, mt) ==
    IF BlocksOnUnmatched(mt.unmatched, ignore_missing_tracks)
    THEN Unwritten(m, e, r,
             SyncResult(target, FALSE, FALSE, 0, mt.unmatched, "unmatched"), FALSE)
    ELSE IF dry_run
    THEN Unwritten(m, e, r,
             SyncResult(target, TRUE, FALSE, Len(mt.matched), mt.unmatched, ""), FALSE)
    ELSE SyncMatchedTracks(m, e, r, target, mt,
             IF target = "manadj" THEN SyncToManadj(m, playlist_name, mt.matched, fault)
             ELSE IF target = "engine"
             THEN SyncToEngine(e, has_engine, playlist_name, mt.matched, fault)
             ELSE SyncToRekordbox(r, has_rb, playlist_name, mt.matched, fault))

\* sync_playlist_to_target from the lookup of the source playlist on
SyncSourcePlaylist(m, e, r, has_engine, has_rb, playlist_name, target, ignore_missing_tracks, dry_run, fault, source_playlist) ==
    IF source_playlist = <<>>
    THEN Unwritten(m, e, r, SyncResult(target, FALSE, FALSE, 0, <<>>, "not found"), FALSE)
    ELSE IF MatchRaises(has_engine, target)
    THEN Unwritten(m, e, r, NoResult, TRUE)
    ELSE SyncAfterMatching(m, e, r, has_engine, has_rb, playlist_name, target,
             ignore_missing_tracks, dry_run, fault,
             MatchTracksToTarget(m, e, r, has_engine, has_rb, target,
                                 source_playlist[1].tracks))

\* sync_playlist_to_target: the libraries after the call, the SyncResult and
\* whether the call raised instead of returning.
\* fault: the target library raises while the playlist is written.
SyncPlaylistToTarget(m, e, r, has_engine, has_rb, playlist_name, source, target, ignore_missing_tracks, dry_run, fault) ==
    IF source \notin LibraryNames
    THEN Unwritten(m, e, r,
             SyncResult(target, FALSE, FALSE, 0, <<>>, "invalid source"), FALSE)
    ELSE IF target \notin LibraryNames
    THEN Unwritten(m, e, r,
             SyncResult(target, FALSE, FALSE, 0, <<>>, "invalid target"), FALSE)
    ELSE SyncSourcePlaylist(m, e, r, has_engine, has_rb, playlist_name, target,
             ignore_missing_tracks, dry_run, fault,
             FindSourcePlaylist(LoadAllPlaylists(m, e, r, has_engine, has_rb),
                                source, playlist_name))

\* the targets of sync_playlist_to_all, in the order they are attempted
SyncAllTargets(source, has_engine, has_rb) ==
    (IF source # "manadj" THEN <<"manadj">> ELSE <<>>)
    \o (IF source # "engine" /\ has_engine THEN <<"engine">> ELSE <<>>)
    \o (IF source # "rekordbox" /\ has_rb THEN <<"rekordbox">> ELSE <<>>)

\* results.append(result), unless a later call of the loop raised
AppendResult(result, rest) ==
    IF rest.raised THEN rest ELSE [rest EXCEPT !.results = <<result>> \o @]

\* the loop of sync_playlist_to_all; faults: the targets whose write raises.
\* A call of sync_playlist_to_target that raises ends the loop: the list of
\* results is never returned.
RECURSIVE SyncEachTarget(_, _, _, _, _, _, _, _, _, _, _)
RECURSIVE SyncNextTarget(_, _, _, _, _, _, _, _, _)

\* the loop after the call for one target returned or raised
SyncNextTarget(one, has_engine, has_rb, targets, playlist_name, source, ignore_missing_tracks, dry_run, faults) ==
    IF one.raised
    THEN [manadj |-> one.manadj, engine |-> one.engine,
          rekordbox |-> one.rekordbox, results |-> <<>>, raised |-> TRUE]
    ELSE AppendResult(one.result,
             SyncEachTarget(one.manadj, one.engine, one.rekordbox,
                            has_engine, has_rb, targets, playlist_name, source,
                            ignore_missing_tracks, dry_run, faults))

SyncEachTarget(m, e, r, has_engine, has_rb, targets, playlist_name, source, ignore_missing_tracks, dry_run, faults) ==
    IF targets = <<>>
    THEN [manadj |-> m, engine |-> e, rekordbox |-> r, results |-> <<>>, raised |-> FALSE]
    ELSE SyncNextTarget(
             SyncPlaylistToTarget(m, e, r, has_engine, has_rb, playlist_name,
                 source, Head(targets), ignore_missing_tracks, dry_run,
                 Head(targets) \in faults),
             has_engine, has_rb, Tail(targets), playlist_name, source,
             ignore_missing_tracks, dry_run, faults)

SyncPlaylistToAll(m, e, r, has_engine, has_rb, playlist_name, source, ignore_missing_tracks, dry_run, faults) ==
    SyncEachTarget(m, e, r, has_engine, has_rb,
                   SyncAllTargets(source, has_engine, has_rb),
                   playlist_name, source, ignore_missing_tracks, dry_run, faults)

(* ------------------------------ tag readers ---------------------------- *)

\* crud.get_tag_categories
GetTagCategories(m) ==
    LET Ord(c) == c.display_order IN SortBy(m.tag_categories, [row \in Range(m.tag_categories) |-> Ord(row)])

\* crud.get_tags_by_category
GetTagsByCategory(m, category_id) ==
    LET Mine(t) == t.category_id = category_id
        Ord(t) == t.display_order
    IN  SortBy(SelectSeq(m.tags, Mine), [row \in Range(SelectSeq(m.tags, Mine)) |-> Ord(row)])

\* enginedj.playlist.get_tracks_by_tag: Track JOIN TrackTag ON track_id
GetTracksByTag(m, tag_id) ==
    LET Tagged(t) == \E i \in DOMAIN m.track_tags :
                        m.track_tags[i].track_id = t.id /\ m.track_tags[i].tag_id = tag_id
    IN  SelectSeq(m.tracks, Tagged)

TagInfo(name, category_name, source, tag_id, track_count) ==
    [name |-> name, category_name |-> category_name, source |-> source,
     tag_id |-> tag_id, track_count |-> track_count]

CategoryInfo(name, source, tags) == [name |-> name, source |-> source, tags |-> tags]

\* ManAdjTagReader.get_tag_structure: the categories of the TagStructure
ManadjGetTagStructure(m) ==
    LET categories == GetTagCategories(m)
    IN  [i \in DOMAIN categories |->
            LET tags == GetTagsByCategory(m, categories[i].id)
            IN  CategoryInfo(categories[i].name, "manadj",
                    [j \in DOMAIN tags |->
                        LET Mine(tt) == tt.tag_id = tags[j].id
                        IN  TagInfo(tags[j].name, categories[i].name, "manadj", tags[j].id,
                                    Len(SelectSeq(m.track_tags, Mine)))])]

\* EngineTagReader.get_tag_structure: Category > Tag below 'manadj Tags'
EngineGetTagStructure(e) ==
    LET root == EngineFindPlaylistByTitleAndParent(e, TagRootTitle, 0)
        Id(pl) == pl.id
        ChildOfRoot(pl) == pl.parentListId = root[1].id
        categories == SortBy(SelectSeq(e.Playlist, ChildOfRoot), [row \in Range(SelectSeq(e.Playlist, ChildOfRoot)) |-> Id(row)])
    IN  IF root = <<>> THEN <<>>
        ELSE [i \in DOMAIN categories |->
                LET Child(pl) == pl.parentListId = categories[i].id
                    tags == SortBy(SelectSeq(e.Playlist, Child), [row \in Range(SelectSeq(e.Playlist, Child)) |-> Id(row)])
                IN  CategoryInfo(categories[i].title, "engine",
                        [j \in DOMAIN tags |->
                            LET Mine(en) == en.listId = tags[j].id
                            IN  TagInfo(tags[j].title, categories[i].title, "engine",
                                        tags[j].id,
                                        Len(SelectSeq(e.PlaylistEntity, Mine)))])]

EnergyCategoryName == <<"Energy">>

\* RekordboxTagReader.get_tag_structure: root MyTags by Seq, Energy skipped
RekordboxGetTagStructure(r) ==
    LET Seq_(t) == t.Seq
        Shown(t) == t.ParentID = RootID /\ t.Name # EnergyCategoryName
        rb_categories == SortBy(SelectSeq(r.DjmdMyTag, Shown), [row \in Range(SelectSeq(r.DjmdMyTag, Shown)) |-> Seq_(row)])
    IN  [i \in DOMAIN rb_categories |->
            LET Child(t) == t.ParentID = rb_categories[i].ID
                rb_tags == SortBy(SelectSeq(r.DjmdMyTag, Child), [row \in Range(SelectSeq(r.DjmdMyTag, Child)) |-> Seq_(row)])
            IN  CategoryInfo(rb_categories[i].Name, "rekordbox",
                    [j \in DOMAIN rb_tags |->
                        LET Mine(a) == a.MyTagID = rb_tags[j].ID
                        IN  TagInfo(rb_tags[j].Name, rb_categories[i].Name, "rekordbox",
                                    rb_tags[j].ID,
                                    Len(SelectSeq(r.DjmdSongMyTag, Mine)))])]

\* TagSyncManager.load_all_tag_structures: <<structure>> per source, <<>> for None
LoadAllTagStructures(m, e, r, has_engine, has_rb) ==
    [manadj |-> <<ManadjGetTagStructure(m)>>,
     engine |-> IF has_engine THEN <<EngineGetTagStructure(e)>> ELSE <<>>,
     rekordbox |-> IF has_rb THEN <<RekordboxGetTagStructure(r)>> ELSE <<>>]

\* the TagInfos of a structure in category order, then tag order
RECURSIVE FlattenTags(_)
FlattenTags(categories) ==
    IF categories = <<>> THEN <<>>
    ELSE Head(categories).tags \o FlattenTags(Tail(categories))

PairOf(tag) == <<tag.category_name, tag.name>>

\* lookups[source].get(pair): the dict keeps the last tag listed under a pair
LookupPair(structure, pair) ==
    LET tags == IF structure = <<>> THEN <<>> ELSE FlattenTags(structure[1])
        hits == {i \in DOMAIN tags : PairOf(tags[i]) = pair}
    IN  IF hits = {} THEN <<>> ELSE <<tags[MaxOf(hits)]>>

AllPairs(structures) ==
    UNION {IF structures[src] = <<>> THEN {}
           ELSE {PairOf(t) : t \in Range(FlattenTags(structures[src][1]))} :
           src \in LibraryNames}

\* match_tags_by_name: pair -> the tag of each source (<<>> for None)
MatchTagsByName(structures) ==
    [pair \in AllPairs(structures) |->
        [src \in LibraryNames |-> LookupPair(structures[src], pair)]]

\* a faulty predicate that does not compare the track counts; C9 must not
\* hold with it
CheckIfSyncedByPresence(sources, has_engine, has_rb) ==
    /\ sources["manadj"] # <<>>
    /\ has_engine => sources["engine"] # <<>>
    /\ has_rb => sources["rekordbox"] # <<>>

\* TagSyncManager._check_if_synced
CheckIfSynced(sources, has_engine, has_rb) ==
    IF sources["manadj"] = <<>> THEN FALSE
    ELSE IF has_engine /\ sources["engine"] = <<>> THEN FALSE
    ELSE IF has_engine /\ sources["engine"][1].track_count
                            # sources["manadj"][1].track_count THEN FALSE
    ELSE IF has_rb /\ sources["rekordbox"] = <<>> THEN FALSE
    ELSE IF has_rb /\ sources["rekordbox"][1].track_count
                            # sources["manadj"][1].track_count THEN FALSE
    ELSE TRUE

\* TagSyncManager.get_unified_view: one UnifiedTagView per pair
GetUnifiedView(m, e, r, has_engine, has_rb) ==
    LET matched == MatchTagsByName(LoadAllTagStructures(m, e, r, has_engine, has_rb))
    IN  {[category_name |-> pair[1], tag_name |-> pair[2],
          manadj |-> matched[pair]["manadj"],
          engine |-> matched[pair]["engine"],
          rekordbox |-> matched[pair]["rekordbox"],
          synced |-> CheckIfSynced(matched[pair], has_engine, has_rb)] :
         pair \in DOMAIN matched}

(* -------------------- backend/tags/engine_writer ----------------------- *)

TagSyncStats(categories_created, categories_updated, tags_created, tags_updated, tracks_matched, tracks_unmatched, tracks_updated, tracks_colored) ==
    [categories_created |-> categories_created, categories_updated |-> categories_updated,
     tags_created |-> tags_created, tags_updated |-> tags_updated,
     tracks_matched |-> tracks_matched, tracks_unmatched |-> tracks_unmatched,
     tracks_updated |-> tracks_updated, tracks_colored |-> tracks_colored]

ZeroStats == TagSyncStats(0, 0, 0, 0, 0, 0, 0, 0)

\* enginedj.sync.index_engine_tracks
IndexEngineTracks(edj_tracks) ==
    LET Path(t) == t.path
        Filename(t) == t.filename
    IN  IndexTracksByPath(edj_tracks, [i \in DOMAIN edj_tracks |-> Path(edj_tracks[i])],
                          [i \in DOMAIN edj_tracks |-> Filename(edj_tracks[i])])

\* enginedj.sync.match_track
MatchTrack(manadj_track, edj_tracks_by_path, edj_tracks_by_filename) ==
    IF manadj_track.filename \in DOMAIN edj_tracks_by_path
    THEN <<edj_tracks_by_path[manadj_track.filename]>>
    ELSE IF PathName(manadj_track.filename) \in DOMAIN edj_tracks_by_filename
         THEN <<edj_tracks_by_filename[PathName(manadj_track.filename)]>>
         ELSE <<>>

\* the matching loop of _sync_tag
RECURSIVE MatchManadjTracks(_, _)
MatchManadjTracks(manadj_tracks, index) ==
    IF manadj_tracks = <<>>
    THEN [matched |-> <<>>, unmatched |-> <<>>]
    ELSE LET edj_track == MatchTrack(Head(manadj_tracks), index.by_path, index.by_filename)
             rest == MatchManadjTracks(Tail(manadj_tracks), index)
         IN  IF edj_track # <<>>
             THEN [rest EXCEPT !.matched = edj_track \o @]
             ELSE [rest EXCEPT !.unmatched = <<Head(manadj_tracks)>> \o @]

\* the playlist and everything below it (deleting the root cascades)
RECURSIVE EngineDescendants(_, _)
EngineDescendants(db, ids) ==
    LET more == ids \cup {db.Playlist[i].id : i \in
                    {j \in DOMAIN db.Playlist : db.Playlist[j].parentListId \in ids}}
    IN  IF more = ids THEN ids ELSE EngineDescendants(db, more)

EngineDeletePlaylist(db, playlist_id) ==
    LET gone == EngineDescendants(db, {playlist_id})
        KeepList(pl) == pl.id \notin gone
        KeepEntity(en) == en.listId \notin gone
    IN  [db EXCEPT !.Playlist = SelectSeq(@, KeepList),
                   !.PlaylistEntity = SelectSeq(@, KeepEntity)]

\* _find_or_create_root: [db, root_id, stats]; root_id 0 for None
EngineFindOrCreateRoot(db, dry_run, fresh, stats) ==
    LET existing == EngineFindPlaylistByTitleAndParent(db, TagRootTitle, 0)
        cleared == IF fresh /\ existing # <<>>
                   THEN EngineDeletePlaylist(db, existing[1].id) ELSE db
        made == EngineCreateOrUpdatePlaylist(cleared, TagRootTitle, 0, <<>>)
    IN  IF dry_run THEN [db |-> db, root_id |-> 0, stats |-> stats]
        ELSE [db |-> made.db, root_id |-> made.id,
              stats |-> IF made.was_created
                        THEN [stats EXCEPT !.categories_created = @ + 1] ELSE stats]

\* _sync_tag over the tags of one category; st = [db, stats, raised]
RECURSIVE EngineSyncTags(_, _, _, _, _, _)
EngineSyncTags(m, st, tags, category_playlist_id, dry_run, index) ==
    IF tags = <<>> \/ st.raised THEN st
    ELSE LET tag == Head(tags)
             manadj_tracks == GetTracksByTag(m, tag.id)
             mt == MatchManadjTracks(manadj_tracks, index)
             stats == [st.stats EXCEPT !.tracks_matched = @ + Len(mt.matched),
                                       !.tracks_unmatched = @ + Len(mt.unmatched)]
             made == EngineCreateOrUpdatePlaylist(st.db, tag.name, category_playlist_id,
                                                  mt.matched)
             next == IF manadj_tracks = <<>> THEN st
                     ELSE IF ~dry_run /\ category_playlist_id # 0 /\ mt.matched # <<>>
                     THEN IF made.raised THEN [st EXCEPT !.raised = TRUE]
                          ELSE [db |-> made.db,
                                stats |-> IF made.was_created
                                          THEN [stats EXCEPT !.tags_created = @ + 1]
                                          ELSE [stats EXCEPT !.tags_updated = @ + 1],
                                raised |-> FALSE]
                     ELSE [st EXCEPT !.stats = stats]
         IN  EngineSyncTags(m, next, Tail(tags), category_playlist_id, dry_run, index)

\* _sync_category
EngineSyncCategory(m, st, category, root_id, dry_run, index) ==
    LET tags == GetTagsByCategory(m, category.id)
        made == EngineCreateOrUpdatePlaylist(st.db, category.name, root_id, <<>>)
        written == [db |-> made.db,
                    stats |-> IF made.was_created
                              THEN [st.stats EXCEPT !.categories_created = @ + 1]
                              ELSE [st.stats EXCEPT !.categories_updated = @ + 1],
                    raised |-> FALSE]
    IN  IF tags = <<>> THEN st
        ELSE IF ~dry_run
        THEN EngineSyncTags(m, written, tags, made.id, dry_run, index)
        ELSE EngineSyncTags(m, st, tags, 0, dry_run, index)

RECURSIVE EngineSyncCategories(_, _, _, _, _, _)
EngineSyncCategories(m, st, categories, root_id, dry_run, index) ==
    IF categories = <<>> \/ st.raised THEN st
    ELSE EngineSyncCategories(m,
             EngineSyncCategory(m, st, Head(categories), root_id, dry_run, index),
             Tail(categories), root_id, dry_run, index)

\* EngineTagWriter.sync_tag_structure: [db, stats, raised].  session_m_write
\* commits on exit and rolls back when the body raises.
EngineSyncTagStructure(m, e, dry_run, fresh) ==
    LET categories == GetTagCategories(m)
        index == IndexEngineTracks(e.Track)
        root == EngineFindOrCreateRoot(e, dry_run, fresh, ZeroStats)
        done == EngineSyncCategories(m,
                    [db |-> root.db, stats |-> root.stats, raised |-> FALSE],
                    categories, root.root_id, dry_run, index)
    IN  IF categories = <<>> THEN [db |-> e, stats |-> ZeroStats, raised |-> FALSE]
        ELSE IF done.raised THEN [db |-> e, stats |-> ZeroStats, raised |-> TRUE]
        ELSE done

\* TagSyncManager.sync_to_engine: ValueError when Engine DJ is not configured
TagSyncToEngine(m, e, has_engine, dry_run, fresh) ==
    IF ~has_engine THEN [db |-> e, stats |-> ZeroStats, raised |-> TRUE]
    ELSE EngineSyncTagStructure(m, e, dry_run, fresh)

(* --------------------------- rekordbox/tag_sync ------------------------ *)

\* the last of the rows found, <<>> when there is none
LastRow(found) == IF found = <<>> THEN <<>> ELSE <<found[Len(found)]>>

\* rb_categories[name]: a dict comprehension, the last root MyTag with the name
RbCategoryByName(r, name) ==
    LET Test(t) == t.ParentID = RootID /\ t.Name = name
    IN  LastRow(SelectSeq(r.DjmdMyTag, Test))

\* rb_tags_by_parent.get(parent_id, {}).get(name)
RbTagByParentAndName(r, parent_id, name) ==
    LET Test(t) == t.ParentID # RootID /\ t.ParentID = parent_id /\ t.Name = name
    IN  LastRow(SelectSeq(r.DjmdMyTag, Test))

\* rb_tag.Seq as the session holds it: the row may have been updated earlier
\* in the same sync
CurrentSeq(db, id) == (CHOOSE t \in Range(db.DjmdMyTag) : t.ID = id).Seq

\* a faulty update that also moves the entry to the top level; C23 must not
\* hold with it
SetSeqAndParent(db, id, seq) ==
    [db EXCEPT !.DjmdMyTag = [i \in DOMAIN @ |->
        IF @[i].ID = id THEN [@[i] EXCEPT !.Seq = seq, !.ParentID = RootID] ELSE @[i]]]

\* rb_category.Seq = category.display_order, rb_tag.Seq = tag.display_order
SetSeq(db, id, seq) ==
    [db EXCEPT !.DjmdMyTag = [i \in DOMAIN @ |->
        IF @[i].ID = id THEN [@[i] EXCEPT !.Seq = seq] ELSE @[i]]]

AddMyTag(db, name, parent_id, seq) ==
    [db EXCEPT !.DjmdMyTag = @ \o <<[ID |-> RekordboxNewID(db), Name |-> name,
                                     ParentID |-> parent_id, Seq |-> seq]>>,
               !.next_id = @ + 1]

\* the placeholder ids of a dry run: -category.id and -(1000 + tag.id)
DummyCategoryID(category) == ToString(0 - category.id)

DummyTagID(tag) == ToString(0 - (1000 + tag.id))

\* the category loop of sync_tag_structure; r0: the rows read before the loop;
\* st = [db, rb_category_map, stats]
RECURSIVE RbSyncCategories(_, _, _, _)
RbSyncCategories(st, categories, r0, dry_run) ==
    IF categories = <<>> THEN st
    ELSE LET category == Head(categories)
             rb_category == RbCategoryByName(r0, category.name)
             next ==
                IF rb_category # <<>>
                THEN [db |-> IF ~dry_run /\ CurrentSeq(st.db, rb_category[1].ID) # category.display_order
                             THEN SetSeq(st.db, rb_category[1].ID, category.display_order)
                             ELSE st.db,
                      rb_category_map |-> (category.id :> rb_category[1].ID)
                                          @@ st.rb_category_map,
                      stats |-> [st.stats EXCEPT !.categories_updated = @ + 1]]
                ELSE [db |-> IF ~dry_run
                             THEN AddMyTag(st.db, category.name, RootID,
                                           category.display_order)
                             ELSE st.db,
                      rb_category_map |-> (category.id :>
                                              IF ~dry_run THEN RekordboxNewID(st.db)
                                              ELSE DummyCategoryID(category))
                                          @@ st.rb_category_map,
                      stats |-> [st.stats EXCEPT !.categories_created = @ + 1]]
         IN  RbSyncCategories(next, Tail(categories), r0, dry_run)

\* the tags of one category; st = [db, rb_tag_map, stats]
RECURSIVE RbSyncTags(_, _, _, _, _, _)
RbSyncTags(st, tags, rb_parent_id, is_dummy, r0, dry_run) ==
    IF tags = <<>> THEN st
    ELSE LET tag == Head(tags)
             rb_tag == IF is_dummy THEN <<>>
                       ELSE RbTagByParentAndName(r0, rb_parent_id, tag.name)
             next ==
                IF rb_tag # <<>>
                THEN [db |-> IF ~dry_run /\ CurrentSeq(st.db, rb_tag[1].ID) # tag.display_order
                             THEN SetSeq(st.db, rb_tag[1].ID, tag.display_order)
                             ELSE st.db,
                      rb_tag_map |-> (tag.id :> rb_tag[1].ID) @@ st.rb_tag_map,
                      stats |-> [st.stats EXCEPT !.tags_updated = @ + 1]]
                ELSE [db |-> IF ~dry_run
                             THEN AddMyTag(st.db, tag.name, rb_parent_id, tag.display_order)
                             ELSE st.db,
                      rb_tag_map |-> (tag.id :> IF ~dry_run THEN RekordboxNewID(st.db)
                                                ELSE DummyTagID(tag))
                                     @@ st.rb_tag_map,
                      stats |-> [st.stats EXCEPT !.tags_created = @ + 1]]
         IN  RbSyncTags(next, Tail(tags), rb_parent_id, is_dummy, r0, dry_run)

\* the tag loop of sync_tag_structure over the categories
RECURSIVE RbSyncTagsOfCategories(_, _, _, _, _, _)
RbSyncTagsOfCategories(m, st, categories, rb_category_map, r0, dry_run) ==
    IF categories = <<>> THEN st
    ELSE LET category == Head(categories)
             rb_parent_id == rb_category_map[category.id]
             tags == GetTagsByCategory(m, category.id)
         IN  RbSyncTagsOfCategories(m,
                 RbSyncTags(st, tags, rb_parent_id,
                            rb_parent_id = DummyCategoryID(category), r0, dry_run),
                 Tail(categories), rb_category_map, r0, dry_run)

EmptyMap == [x \in {} |-> ""]

\* a faulty writer that writes the structure whatever dry_run says; C3 must
\* not hold with it
RekordboxSyncTagStructureAlwaysWrites(m, r, dry_run) ==
    LET categories == GetTagCategories(m)
        cats == RbSyncCategories([db |-> r, rb_category_map |-> EmptyMap,
                                  stats |-> ZeroStats], categories, r, FALSE)
    IN  RbSyncTagsOfCategories(m,
            [db |-> cats.db, rb_tag_map |-> EmptyMap, stats |-> cats.stats],
            categories, cats.rb_category_map, r, FALSE)

\* RekordboxTagSyncer.sync_tag_structure: [db, rb_tag_map, stats]
RekordboxSyncTagStructure(m, r, dry_run) ==
    LET categories == GetTagCategories(m)
        cats == RbSyncCategories([db |-> r, rb_category_map |-> EmptyMap,
                                  stats |-> ZeroStats], categories, r, dry_run)
    IN  RbSyncTagsOfCategories(m,
            [db |-> cats.db, rb_tag_map |-> EmptyMap, stats |-> cats.stats],
            categories, cats.rb_category_map, r, dry_run)

EnergyValues == 1..5

\* energy_tag_names
EnergyTagNames ==
    (1 :> <<"Background">>) @@ (2 :> <<"Chill">>) @@ (3 :> <<"Warm">>)
    @@ (4 :> <<"Hot">>) @@ (5 :> <<"Banger">>)

\* ENERGY_COLOR_NAMES, lower-cased
EnergyColorNames ==
    (1 :> "blue") @@ (2 :> "aqua") @@ (3 :> "yellow") @@ (4 :> "orange") @@ (5 :> "red")

\* str.lower() on the words a colour comment is made of
Lower(word) ==
    CASE word = "Blue" -> "blue" [] word = "Aqua" -> "aqua" [] word = "Yellow" -> "yellow"
      [] word = "Orange" -> "orange" [] word = "Red" -> "red" [] word = "Pink" -> "pink"
      [] OTHER -> word

\* rekordbox.mappings.build_energy_color_map: energy -> the ID of the first
\* colour whose comment (a sequence of words) contains the colour name
BuildEnergyColorMap(r) ==
    LET Hit(energy, color) == \E k \in DOMAIN color.Commnt :
                                 Lower(color.Commnt[k]) = EnergyColorNames[energy]
        hits(energy) == {i \in DOMAIN r.DjmdColor : Hit(energy, r.DjmdColor[i])}
    IN  [energy \in {v \in EnergyValues : hits(v) # {}} |->
            r.DjmdColor[MinOf(hits(energy))].ID]

\* energy_value_to_rb_id: the tags of the first root MyTag named Energy
EnergyValueToRbId(r) ==
    LET IsEnergy(t) == t.ParentID = RootID /\ t.Name = EnergyCategoryName
        rb_energy_category == SelectSeq(r.DjmdMyTag, IsEnergy)
        tags(v) == LET Test(t) == /\ t.ParentID = rb_energy_category[1].ID
                                  /\ t.Name = EnergyTagNames[v]
                   IN  SelectSeq(r.DjmdMyTag, Test)
    IN  IF rb_energy_category = <<>> THEN EmptyMap
        ELSE [v \in {w \in EnergyValues : tags(w) # <<>>} |-> tags(v)[1].ID]

\* rekordbox.sync.index_rekordbox_tracks
IndexRekordboxTracks(rb_contents) ==
    LET FolderPath(c) == c.FolderPath
    IN  IndexTracksByPath(rb_contents,
                          [i \in DOMAIN rb_contents |-> FolderPath(rb_contents[i])],
                          [i \in DOMAIN rb_contents |-> FolderPath(rb_contents[i])])

\* rekordbox.sync.match_track_rekordbox
MatchTrackRekordbox(manadj_track, rb_tracks_by_path, rb_tracks_by_filename) ==
    IF manadj_track.filename \in DOMAIN rb_tracks_by_path
    THEN <<rb_tracks_by_path[manadj_track.filename]>>
    ELSE IF PathName(manadj_track.filename) \in DOMAIN rb_tracks_by_filename
         THEN <<rb_tracks_by_filename[PathName(manadj_track.filename)]>>
         ELSE <<>>

\* `track.energy` as a condition: neither None nor 0
HasEnergy(track) == track.energy # <<>> /\ track.energy[1] # 0

\* [tt.tag_id for tt in track.track_tags]
ManadjTagIds(m, track) ==
    LET Mine(tt) == tt.track_id = track.id
        rows == SelectSeq(m.track_tags, Mine)
    IN  [i \in DOMAIN rows |-> rows[i].tag_id]

\* the MyTag ids written for a track: the mapped tags, then the energy tag
RbMyTagIds(m, track, rb_tag_map, energy_value_to_rb_id) ==
    LET manadj_tag_ids == ManadjTagIds(m, track)
        Mapped(tag_id) == tag_id \in DOMAIN rb_tag_map
        kept == SelectSeq(manadj_tag_ids, Mapped)
        rb_mytag_ids == [i \in DOMAIN kept |-> rb_tag_map[kept[i]]]
    IN  IF HasEnergy(track) /\ track.energy[1] \in DOMAIN energy_value_to_rb_id
           /\ energy_value_to_rb_id[track.energy[1]] \notin Range(rb_mytag_ids)
        THEN Append(rb_mytag_ids, energy_value_to_rb_id[track.energy[1]])
        ELSE rb_mytag_ids

\* delete the assignments of the track, add one DjmdSongMyTag per id
SetSongMyTags(db, content_id, rb_mytag_ids) ==
    LET Others(a) == a.ContentID # content_id
    IN  [db EXCEPT
            !.DjmdSongMyTag = SelectSeq(@, Others) \o
                [i \in DOMAIN rb_mytag_ids |->
                    [ID |-> ToString(db.next_id + i - 1), ContentID |-> content_id,
                     MyTagID |-> rb_mytag_ids[i]]],
            !.next_id = @ + Len(rb_mytag_ids)]

SetColorID(db, content_id, color_id) ==
    [db EXCEPT !.DjmdContent = [i \in DOMAIN @ |->
        IF @[i].ID = content_id THEN [@[i] EXCEPT !.ColorID = color_id] ELSE @[i]]]

\* the track loop of sync_track_tags_and_colors; st = [db, stats]
RECURSIVE RbSyncTracks(_, _, _, _, _, _, _, _)
RbSyncTracks(m, st, tracks, index, rb_tag_map, energy_value_to_rb_id, energy_to_color_id, dry_run) ==
    IF tracks = <<>> THEN st
    ELSE LET track == Head(tracks)
             rb_track == MatchTrackRekordbox(track, index.by_path, index.by_filename)
             rb_mytag_ids == RbMyTagIds(m, track, rb_tag_map, energy_value_to_rb_id)
             tagged == IF ~dry_run THEN SetSongMyTags(st.db, rb_track[1].ID, rb_mytag_ids)
                       ELSE st.db
             has_color == HasEnergy(track) /\ track.energy[1] \in DOMAIN energy_to_color_id
             colored == IF has_color
                        THEN IF ~dry_run
                             THEN SetColorID(tagged, rb_track[1].ID,
                                             energy_to_color_id[track.energy[1]])
                             ELSE tagged
                        ELSE IF HasEnergy(track) /\ ~dry_run
                             THEN SetColorID(tagged, rb_track[1].ID, "0")
                             ELSE tagged
             next == IF rb_track = <<>>
                     THEN [st EXCEPT !.stats.tracks_unmatched = @ + 1]
                     ELSE [db |-> colored,
                           stats |-> [st.stats EXCEPT
                                        !.tracks_colored = IF has_color THEN @ + 1 ELSE @,
                                        !.tracks_updated = @ + 1]]
         IN  RbSyncTracks(m, next, Tail(tracks), index, rb_tag_map,
                          energy_value_to_rb_id, energy_to_color_id, dry_run)

\* RekordboxTagSyncer.sync_track_tags_and_colors: [db, stats], with
\* stats.tracks_matched holding tracks_processed
RekordboxSyncTrackTagsAndColors(m, r, rb_tag_map, energy_to_color_id, dry_run) ==
    LET Wanted(t) == \/ t.energy # <<>>
                     \/ \E i \in DOMAIN m.track_tags : m.track_tags[i].track_id = t.id
        tracks == SelectSeq(m.tracks, Wanted)
    IN  RbSyncTracks(m, [db |-> r, stats |-> [ZeroStats EXCEPT !.tracks_matched = Len(tracks)]],
                     tracks, IndexRekordboxTracks(r.DjmdContent), rb_tag_map,
                     EnergyValueToRbId(r), energy_to_color_id, dry_run)

(* -------------------- backend/tags/rekordbox_writer -------------------- *)

\* RekordboxTagWriter.sync_tag_structure: [db, stats]
RekordboxWriterSyncTagStructure(m, r, dry_run, include_energy) ==
    LET structure == RekordboxSyncTagStructure(m, r, dry_run)
        energy_to_color_id == IF include_energy THEN BuildEnergyColorMap(r) ELSE EmptyMap
        track == RekordboxSyncTrackTagsAndColors(m, structure.db, structure.rb_tag_map,
                                                 energy_to_color_id, dry_run)
    IN  [db |-> track.db,
         stats |-> TagSyncStats(structure.stats.categories_created,
                                structure.stats.categories_updated,
                                structure.stats.tags_created,
                                structure.stats.tags_updated,
                                track.stats.tracks_matched - track.stats.tracks_unmatched,
                                track.stats.tracks_unmatched,
                                track.stats.tracks_updated,
                                track.stats.tracks_colored),
         raised |-> FALSE]

\* TagSyncManager.sync_to_rekordbox: ValueError when Rekordbox is not configured
TagSyncToRekordbox(m, r, has_rb, dry_run, include_energy) ==
    IF ~has_rb THEN [db |-> r, stats |-> ZeroStats, raised |-> TRUE]
    ELSE RekordboxWriterSyncTagStructure(m, r, dry_run, include_energy)

(* ------------------------------ libraries ------------------------------ *)

PlaylistA == <<"a">>

PlaylistAB == <<"a", " ", ">", " ", "b">>

\* the playlist names a caller passes: a root-level and a nested one
PlaylistNames == {PlaylistA, PlaylistAB}

Genre == <<"Genre">>

Mood == <<"Mood">>

House == <<"House">>

Techno == <<"Techno">>

ManadjTracks ==
    << [id |-> 1, filename |-> P("/m", "a.mp3"), energy |-> <<3>>],
       [id |-> 2, filename |-> P("/m", "b.mp3"), energy |-> <<>>],
       [id |-> 3, filename |-> P("/m", "c.mp3"), energy |-> <<>>] >>

\* manadj with the playlists 'a' and 'a > b'; Genre holds House (two tracks)
\* and Techno (no track), Mood holds no tag
ManadjOne ==
    [tracks |-> SubSeq(ManadjTracks, 1, 2),
     playlists |-> << [id |-> 1, name |-> PlaylistA, display_order |-> 0],
                      [id |-> 2, name |-> PlaylistAB, display_order |-> 1] >>,
     playlist_tracks |-> << [id |-> 1, playlist_id |-> 1, track_id |-> 2, position |-> 1],
                            [id |-> 2, playlist_id |-> 1, track_id |-> 1, position |-> 0],
                            [id |-> 3, playlist_id |-> 2, track_id |-> 2, position |-> 0] >>,
     tag_categories |-> << [id |-> 1, name |-> Genre, display_order |-> 0],
                           [id |-> 2, name |-> Mood, display_order |-> 1] >>,
     tags |-> << [id |-> 1, category_id |-> 1, name |-> House, display_order |-> 0],
                 [id |-> 2, category_id |-> 1, name |-> Techno, display_order |-> 1] >>,
     track_tags |-> << [track_id |-> 1, tag_id |-> 1], [track_id |-> 2, tag_id |-> 1] >>]

\* manadj with a track no other library has, a playlist that repeats a track
\* and two tags of one name in a category
ManadjTwo ==
    [tracks |-> ManadjTracks,
     playlists |-> << [id |-> 1, name |-> PlaylistA, display_order |-> 0] >>,
     playlist_tracks |-> << [id |-> 1, playlist_id |-> 1, track_id |-> 1, position |-> 0],
                            [id |-> 2, playlist_id |-> 1, track_id |-> 3, position |-> 1],
                            [id |-> 3, playlist_id |-> 1, track_id |-> 1, position |-> 2] >>,
     tag_categories |-> << [id |-> 1, name |-> Genre, display_order |-> 0] >>,
     tags |-> << [id |-> 1, category_id |-> 1, name |-> House, display_order |-> 0],
                 [id |-> 2, category_id |-> 1, name |-> House, display_order |-> 1] >>,
     track_tags |-> << [track_id |-> 1, tag_id |-> 1], [track_id |-> 2, tag_id |-> 2],
                       [track_id |-> 3, tag_id |-> 2] >>]

ManadjStates == {ManadjOne, ManadjTwo}

EngineEmpty == [Track |-> <<>>, Playlist |-> <<>>, PlaylistEntity |-> <<>>]

\* Engine DJ with a.mp3 under the same path and b.mp3 under another directory;
\* playlist 'a' (entities stored against the list order) with the child 'b'
EngineOne ==
    [Track |-> << [id |-> 11, path |-> P("/m", "a.mp3"), filename |-> P("", "a.mp3")],
                  [id |-> 12, path |-> P("/e", "b.mp3"), filename |-> P("", "b.mp3")] >>,
     Playlist |-> << [id |-> 1, title |-> PlaylistA, parentListId |-> 0, nextListId |-> 0,
                      isPersisted |-> TRUE],
                     [id |-> 2, title |-> <<"b">>, parentListId |-> 1, nextListId |-> 0,
                      isPersisted |-> TRUE] >>,
     PlaylistEntity |-> << [id |-> 1, listId |-> 1, trackId |-> 11, nextEntityId |-> 0],
                           [id |-> 2, listId |-> 1, trackId |-> 12, nextEntityId |-> 1],
                           [id |-> 3, listId |-> 2, trackId |-> 11, nextEntityId |-> 0] >>]

EngineStates == {EngineOne}

RekordboxEmpty ==
    [DjmdContent |-> <<>>, DjmdPlaylist |-> <<>>, DjmdSongPlaylist |-> <<>>,
     DjmdMyTag |-> <<>>, DjmdSongMyTag |-> <<>>, DjmdColor |-> <<>>, next_id |-> 1]

\* Rekordbox with a.mp3 under another directory and b.mp3 under the same path,
\* the top-level playlist 'a', the Energy category and the colour Yellow
RekordboxOne ==
    [DjmdContent |-> << [ID |-> "c1", FolderPath |-> P("/r", "a.mp3"), ColorID |-> "0"],
                        [ID |-> "c2", FolderPath |-> P("/m", "b.mp3"), ColorID |-> "5"] >>,
     DjmdPlaylist |-> << [ID |-> "p1", Name |-> PlaylistA, ParentID |-> RootID, Seq |-> 1] >>,
     DjmdSongPlaylist |-> << [ID |-> "s1", PlaylistID |-> "p1", ContentID |-> "c2",
                              TrackNo |-> 1] >>,
     DjmdMyTag |-> << [ID |-> "t1", Name |-> EnergyCategoryName, ParentID |-> RootID,
                       Seq |-> 1],
                      [ID |-> "t2", Name |-> <<"Warm">>, ParentID |-> "t1", Seq |-> 1] >>,
     DjmdSongMyTag |-> <<>>,
     DjmdColor |-> << [ID |-> "5", Commnt |-> <<"Pink">>],
                      [ID |-> "3", Commnt |-> <<"Lemon", "Yellow">>] >>,
     next_id |-> 1]

\* Rekordbox with 'a' and its child 'b', Genre > House out of sequence and a
\* tag assignment manadj does not have; no Energy category
RekordboxTwo ==
    [RekordboxOne EXCEPT
        !.DjmdPlaylist = @ \o
            << [ID |-> "p2", Name |-> <<"b">>, ParentID |-> "p1", Seq |-> 1] >>,
        !.DjmdSongPlaylist = @ \o
            << [ID |-> "s2", PlaylistID |-> "p2", ContentID |-> "c1", TrackNo |-> 1] >>,
        !.DjmdMyTag = << [ID |-> "t3", Name |-> Genre, ParentID |-> RootID, Seq |-> 4],
                         [ID |-> "t4", Name |-> House, ParentID |-> "t3", Seq |-> 7],
                         [ID |-> "t5", Name |-> <<"Old">>, ParentID |-> "t3", Seq |-> 8],
                         [ID |-> "t6", Name |-> Techno, ParentID |-> "t3", Seq |-> 9] >>,
        !.DjmdSongMyTag = << [ID |-> "g1", ContentID |-> "c1", MyTagID |-> "t5"] >>]

RekordboxStates == {RekordboxOne, RekordboxTwo}

(* ------------------------------- behaviour ----------------------------- *)

\* the record of a call: its arguments and what it returned (last: the call
\* just made, prev: the one before it)
NoCall ==
    [op |-> "none", playlist_name |-> <<>>, source |-> "", target |-> "",
     ignore_missing_tracks |-> FALSE, dry_run |-> FALSE, faults |-> {},
     fresh |-> FALSE, include_energy |-> FALSE, raised |-> FALSE,
     result |-> NoResult, results |-> <<>>, stats |-> ZeroStats, view |-> {}]

\* manadj is always there; Engine DJ and Rekordbox are configured or not
Init ==
    /\ manadj \in ManadjStates
    /\ engine_db \in BOOLEAN
    /\ engine \in IF engine_db THEN EngineStates ELSE {EngineEmpty}
    /\ rb_db \in BOOLEAN
    /\ rekordbox \in IF rb_db THEN RekordboxStates ELSE {RekordboxEmpty}
    /\ last = NoCall
    /\ prev = NoCall
    /\ steps = 0

\* the libraries after a playlist sync, and the record of the call
PlaylistSyncReturns(out, call) ==
    /\ manadj' = out.manadj
    /\ engine' = out.engine
    /\ rekordbox' = out.rekordbox
    /\ last' = [call EXCEPT !.raised = out.raised, !.result = out.result]

\* PlaylistSyncManager.sync_playlist_to_target
SyncPlaylistToTargetCall ==
    /\ steps < MaxSteps
    /\ \E playlist_name \in PlaylistNames, source \in LibraryNames, target \in LibraryNames,
          ignore_missing_tracks \in BOOLEAN, dry_run \in BOOLEAN, fault \in BOOLEAN :
          /\ source # target
          /\ fault => ~dry_run /\ target # "engine"
          /\ PlaylistSyncReturns(
                SyncPlaylistToTarget(manadj, engine, rekordbox, engine_db, rb_db,
                    playlist_name, source, target, ignore_missing_tracks, dry_run, fault),
                [NoCall EXCEPT !.op = "sync_playlist_to_target",
                               !.playlist_name = playlist_name,
                               !.source = source, !.target = target,
                               !.ignore_missing_tracks = ignore_missing_tracks,
                               !.dry_run = dry_run,
                               !.faults = IF fault THEN {target} ELSE {}])
    /\ prev' = last
    /\ steps' = steps + 1
    /\ UNCHANGED <<engine_db, rb_db>>

\* the libraries after sync_playlist_to_all, and the record of the call
PlaylistSyncToAllReturns(out, call) ==
    /\ manadj' = out.manadj
    /\ engine' = out.engine
    /\ rekordbox' = out.rekordbox
    /\ last' = [call EXCEPT !.raised = out.raised, !.results = out.results]

\* PlaylistSyncManager.sync_playlist_to_all
SyncPlaylistToAllCall ==
    /\ steps < MaxSteps
    /\ \E playlist_name \in PlaylistNames, source \in LibraryNames,
          ignore_missing_tracks \in BOOLEAN, dry_run \in BOOLEAN,
          faults \in {{}, {"rekordbox"}} :
          /\ faults # {} => ~dry_run /\ rb_db /\ source # "rekordbox"
          /\ PlaylistSyncToAllReturns(
                SyncPlaylistToAll(manadj, engine, rekordbox, engine_db, rb_db,
                    playlist_name, source, ignore_missing_tracks, dry_run, faults),
                [NoCall EXCEPT !.op = "sync_playlist_to_all",
                               !.playlist_name = playlist_name, !.source = source,
                               !.ignore_missing_tracks = ignore_missing_tracks,
                               !.dry_run = dry_run, !.faults = faults])
    /\ prev' = last
    /\ steps' = steps + 1
    /\ UNCHANGED <<engine_db, rb_db>>

\* the Engine DJ library after a tag sync, and the record of the call
TagSyncToEngineReturns(out, call) ==
    /\ engine' = out.db
    /\ last' = [call EXCEPT !.raised = out.raised, !.stats = out.stats]

\* TagSyncManager.sync_to_engine
TagSyncToEngineCall ==
    /\ steps < MaxSteps
    /\ \E dry_run \in BOOLEAN, fresh \in BOOLEAN :
          TagSyncToEngineReturns(
              TagSyncToEngine(manadj, engine, engine_db, dry_run, fresh),
              [NoCall EXCEPT !.op = "sync_to_engine", !.dry_run = dry_run,
                             !.fresh = fresh])
    /\ prev' = last
    /\ steps' = steps + 1
    /\ UNCHANGED <<manadj, rekordbox, engine_db, rb_db>>

\* the Rekordbox library after a tag sync, and the record of the call
TagSyncToRekordboxReturns(out, call) ==
    /\ rekordbox' = out.db
    /\ last' = [call EXCEPT !.raised = out.raised, !.stats = out.stats]

\* TagSyncManager.sync_to_rekordbox
TagSyncToRekordboxCall ==
    /\ steps < MaxSteps
    /\ \E dry_run \in BOOLEAN, include_energy \in BOOLEAN :
          TagSyncToRekordboxReturns(
              TagSyncToRekordbox(manadj, rekordbox, rb_db, dry_run, include_energy),
              [NoCall EXCEPT !.op = "sync_to_rekordbox", !.dry_run = dry_run,
                             !.include_energy = include_energy])
    /\ prev' = last
    /\ steps' = steps + 1
    /\ UNCHANGED <<manadj, engine, engine_db, rb_db>>

\* TagSyncManager.get_unified_view
GetUnifiedViewCall ==
    /\ steps < MaxSteps
    /\ last' = [NoCall EXCEPT !.op = "get_unified_view",
                              !.view = GetUnifiedView(manadj, engine, rekordbox,
                                                      engine_db, rb_db)]
    /\ prev' = last
    /\ steps' = steps + 1
    /\ UNCHANGED <<manadj, engine, rekordbox, engine_db, rb_db>>

Next ==
    \/ SyncPlaylistToTargetCall
    \/ SyncPlaylistToAllCall
    \/ TagSyncToEngineCall
    \/ TagSyncToRekordboxCall
    \/ GetUnifiedViewCall

Spec == Init /\ [][Next]_vars

(* ------------------------------ properties ----------------------------- *)

\* the paths of the tracks of a library (none when it is not configured)
TrackPaths(m, e, r, has_engine, has_rb, library) ==
    (IF library = "manadj" THEN {m.tracks[i].filename : i \in DOMAIN m.tracks}
     ELSE IF library = "engine"
     THEN IF has_engine THEN {e.Track[i].path : i \in DOMAIN e.Track} ELSE {}
     ELSE IF has_rb THEN {r.DjmdContent[i].FolderPath : i \in DOMAIN r.DjmdContent}
          ELSE {}) \ {NoPath}

\* no track of the library has the path or the file name of the reference
HasNoMatch(ref, paths) ==
    /\ ref.path \notin paths
    /\ PathName(ref.path) \notin {PathName(q) : q \in paths}

\* the playlists and membership rows of a library
PlaylistRows(m, e, r, library) ==
    IF library = "manadj" THEN <<m.playlists, m.playlist_tracks>>
    ELSE IF library = "engine" THEN <<e.Playlist, e.PlaylistEntity>>
    ELSE <<r.DjmdPlaylist, r.DjmdSongPlaylist>>

\* the source playlist the step's call names, read before the call
CalledPlaylist ==
    FindSourcePlaylist(LoadAllPlaylists(manadj, engine, rekordbox, engine_db, rb_db),
                       last'.source, last'.playlist_name)

\* the tracks of the called playlist without a match in the call's target
CalledUnmatched ==
    LET paths == TrackPaths(manadj, engine, rekordbox, engine_db, rb_db, last'.target)
        NoMatch(ref) == HasNoMatch(ref, paths)
    IN  IF CalledPlaylist = <<>> THEN <<>>
        ELSE SelectSeq(CalledPlaylist[1].tracks, NoMatch)

TargetRowsUnchanged ==
    PlaylistRows(manadj', engine', rekordbox', last'.target)
        = PlaylistRows(manadj, engine, rekordbox, last'.target)

\* C1: a sync_playlist_to_target call with ignore_missing_tracks = false whose
\* source playlist has a track without a two-tier match in the target returns
\* success = false, tracks_synced = 0 and the file names of all unmatched
\* tracks, and leaves the target's playlists and membership rows as they were.
C1_UnmatchedAborts ==
    [][(/\ last'.op = "sync_playlist_to_target"
        /\ ~last'.ignore_missing_tracks
        /\ CalledUnmatched # <<>>)
       => (/\ ~last'.raised
           /\ ~last'.result.success
           /\ last'.result.tracks_synced = 0
           /\ last'.result.tracks_unmatched
                = [i \in DOMAIN CalledUnmatched |-> CalledUnmatched[i].filename]
           /\ TargetRowsUnchanged)]_vars

\* C1, the calls that return: the same statement for the targets manadj and
\* Rekordbox and for an Engine DJ target that is not configured
C1_UnmatchedAbortsWhenReturning ==
    [][(/\ last'.op = "sync_playlist_to_target"
        /\ ~last'.ignore_missing_tracks
        /\ ~(last'.target = "engine" /\ engine_db)
        /\ CalledUnmatched # <<>>)
       => (/\ ~last'.raised
           /\ ~last'.result.success
           /\ last'.result.tracks_synced = 0
           /\ last'.result.tracks_unmatched
                = [i \in DOMAIN CalledUnmatched |-> CalledUnmatched[i].filename]
           /\ TargetRowsUnchanged)]_vars

\* C1: a call with an unmatched track and an Engine DJ target has been made
C1_Witness ==
    /\ last.op = "sync_playlist_to_target"
    /\ ~last.ignore_missing_tracks
    /\ last.target = "engine"
    /\ last.raised

\* C2: a sync_playlist_to_target call that returns success = false, also one
\* whose target write raised part-way, leaves the target's playlists and
\* membership rows exactly as they were before the call.
C2_FailureLeavesTarget ==
    [][(/\ last'.op = "sync_playlist_to_target"
        /\ ~last'.raised
        /\ ~last'.result.success)
       => TargetRowsUnchanged]_vars

\* C2, without a write that raises after the ancestors were committed: the
\* statement for every failed call whose target is not Rekordbox with a
\* nested name and a raising leaf write
C2_FailureLeavesTargetUnlessAncestors ==
    [][(/\ last'.op = "sync_playlist_to_target"
        /\ ~last'.raised
        /\ ~last'.result.success
        /\ ~(/\ last'.target = "rekordbox"
             /\ last'.faults # {}
             /\ ParseHierarchy(last'.playlist_name).parent_names # <<>>))
       => TargetRowsUnchanged]_vars

\* C2: a write to Rekordbox under a nested name has raised
C2_Witness ==
    /\ last.op = "sync_playlist_to_target"
    /\ last.target = "rekordbox"
    /\ last.faults # {}
    /\ ~last.result.success
    /\ last.result.error = "exception"
    /\ ParseHierarchy(last.playlist_name).parent_names # <<>>

TagOps == {"sync_to_engine", "sync_to_rekordbox"}

PlaylistOps == {"sync_playlist_to_target", "sync_playlist_to_all"}

\* C3: with dry_run = true the four sync operations leave every table of
\* every library as it was.
C3_DryRunWritesNothing ==
    [][(last'.op \in TagOps \cup PlaylistOps /\ last'.dry_run)
       => (manadj' = manadj /\ engine' = engine /\ rekordbox' = rekordbox)]_vars

\* C3: a dry run of the Rekordbox tag sync that reports categories and tags
\* to create and a track to colour has been made
C3_Witness ==
    /\ last.op = "sync_to_rekordbox"
    /\ last.dry_run
    /\ last.stats.categories_created > 0
    /\ last.stats.tags_created > 0
    /\ last.stats.tracks_colored > 0

\* the manadj tracks the Rekordbox tag sync looks at: tagged or with an energy
SyncedTracks ==
    LET Wanted(t) == t.energy # <<>> \/ ManadjTagIds(manadj, t) # <<>>
    IN  Range(SelectSeq(manadj.tracks, Wanted))

\* the Rekordbox tracks a manadj track matches: by path, else by file name
RbTargets(t) ==
    LET contents == Range(rekordbox.DjmdContent)
        by_path == {c \in contents : c.FolderPath # NoPath /\ c.FolderPath = t.filename}
    IN  IF by_path # {} THEN by_path
        ELSE {c \in contents : /\ c.FolderPath # NoPath
                               /\ PathName(c.FolderPath) = PathName(t.filename)}

\* the MyTag ids assigned to a Rekordbox track
AssignedMyTags(c) ==
    {a.MyTagID : a \in {b \in Range(rekordbox.DjmdSongMyTag) : b.ContentID = c.ID}}

\* id is a MyTag called tag_name in the root category called category_name
IsMyTagFor(id, category_name, tag_name) ==
    \E tag \in Range(rekordbox.DjmdMyTag), cat \in Range(rekordbox.DjmdMyTag) :
        /\ tag.ID = id /\ tag.Name = tag_name /\ tag.ParentID = cat.ID
        /\ cat.ParentID = RootID /\ cat.Name = category_name

IsEnergyTag(id) ==
    \E name \in Range(EnergyTagNames) : IsMyTagFor(id, EnergyCategoryName, name)

\* the (category name, tag name) pairs of the tags of a manadj track
TagPairsOf(t) ==
    {<<cat.name, tag.name>> : <<cat, tag>> \in
        {<<c, g>> \in Range(manadj.tag_categories) \X Range(manadj.tags) :
            /\ g.category_id = c.id
            /\ \E tt \in Range(manadj.track_tags) : tt.track_id = t.id /\ tt.tag_id = g.id}}

\* the manadj track is the only synced one that matches the Rekordbox track
OnlySource(t, c) == \A u \in SyncedTracks : c \in RbTargets(u) => u = t

TagsMirrored(t, c) ==
    /\ \A pair \in TagPairsOf(t) :
          \E id \in AssignedMyTags(c) : IsMyTagFor(id, pair[1], pair[2])
    /\ \A id \in AssignedMyTags(c) :
          \/ IsEnergyTag(id)
          \/ \E pair \in TagPairsOf(t) : IsMyTagFor(id, pair[1], pair[2])

AfterRekordboxTagSync ==
    last.op = "sync_to_rekordbox" /\ ~last.dry_run /\ ~last.raised

\* C4: after sync_to_rekordbox(dry_run = false, include_energy = e) the tag
\* assignments of the Rekordbox track matched by a tagged or energy-carrying
\* manadj track are the MyTags of the track's tags, plus an energy tag if and
\* only if e is true (and the track has an energy); nothing else is assigned.
C4_AssignmentsMirrorTags ==
    AfterRekordboxTagSync =>
        \A t \in SyncedTracks : \A c \in RbTargets(t) :
            OnlySource(t, c) =>
                /\ TagsMirrored(t, c)
                /\ (\E id \in AssignedMyTags(c) : IsEnergyTag(id))
                        <=> (last.include_energy /\ HasEnergy(t))

\* C4, as the code behaves: the energy tag is assigned whenever Rekordbox has
\* the Energy tag of the track's energy, whatever include_energy says
C4_EnergyTagIgnoresFlag ==
    AfterRekordboxTagSync =>
        \A t \in SyncedTracks : \A c \in RbTargets(t) :
            OnlySource(t, c) =>
                /\ TagsMirrored(t, c)
                /\ (\E id \in AssignedMyTags(c) : IsEnergyTag(id))
                        <=> (/\ HasEnergy(t)
                             /\ \E g \in Range(rekordbox.DjmdMyTag) :
                                   IsMyTagFor(g.ID, EnergyCategoryName,
                                              EnergyTagNames[t.energy[1]]))

\* C4: a sync without energy has assigned an energy tag
C4_Witness ==
    /\ AfterRekordboxTagSync
    /\ ~last.include_energy
    /\ \E a \in Range(rekordbox.DjmdSongMyTag) : IsEnergyTag(a.MyTagID)

SameCall(a, b) ==
    /\ a.op = b.op /\ a.playlist_name = b.playlist_name
    /\ a.source = b.source /\ a.target = b.target
    /\ a.ignore_missing_tracks = b.ignore_missing_tracks
    /\ a.dry_run = b.dry_run /\ a.faults = b.faults
    /\ a.fresh = b.fresh /\ a.include_energy = b.include_energy

\* the call of this step repeats the call before it, both writing, neither
\* with an injected fault
RepeatsPlaylistSync ==
    /\ last.op = "sync_playlist_to_target"
    /\ SameCall(last, last')
    /\ ~last.dry_run /\ last.faults = {}

\* the tracks of the named playlist as the library's reader lists them
ReadPlaylist(m, e, r, library, playlist_name) ==
    LET found == FindSourcePlaylist(LoadAllPlaylists(m, e, r, engine_db, rb_db),
                                    library, playlist_name)
    IN  IF found = <<>> THEN <<>>
        ELSE [i \in DOMAIN found[1].tracks |-> found[1].tracks[i].path]

\* C5: the second of two identical sync_playlist_to_target calls (dry_run =
\* false) reports created = false, adds no playlist to the target and leaves
\* the target playlist's ordered track list as the first call left it.
C5_SecondSyncCreatesNothing ==
    [][RepeatsPlaylistSync
       => (/\ ~last'.result.created
           /\ Len(PlaylistRows(manadj', engine', rekordbox', last'.target)[1])
                = Len(PlaylistRows(manadj, engine, rekordbox, last'.target)[1])
           /\ ReadPlaylist(manadj', engine', rekordbox', last'.target, last'.playlist_name)
                = ReadPlaylist(manadj, engine, rekordbox, last'.target,
                               last'.playlist_name))]_vars

\* C5 for the target manadj, where the playlist is looked up by name alone
C5_SecondSyncCreatesNothingInManadj ==
    [][(RepeatsPlaylistSync /\ last'.target = "manadj")
       => (/\ ~last'.result.created
           /\ Len(PlaylistRows(manadj', engine', rekordbox', last'.target)[1])
                = Len(PlaylistRows(manadj, engine, rekordbox, last'.target)[1])
           /\ ReadPlaylist(manadj', engine', rekordbox', last'.target, last'.playlist_name)
                = ReadPlaylist(manadj, engine, rekordbox, last'.target,
                               last'.playlist_name))]_vars

\* C5: the same sync to Rekordbox has succeeded twice in a row
C5_Witness ==
    /\ last.op = "sync_playlist_to_target" /\ SameCall(prev, last)
    /\ last.target = "rekordbox" /\ ~last.dry_run /\ last.faults = {}
    /\ prev.result.success /\ last.result.success

\* the categories and tags of a tag sync target: the Engine DJ playlists, the
\* Rekordbox MyTags
TagEntries(e, r, op) ==
    IF op = "sync_to_engine"
    THEN {<<pl.id, pl.title, pl.parentListId>> : pl \in Range(e.Playlist)}
    ELSE {<<g.ID, g.Name, g.ParentID>> : g \in Range(r.DjmdMyTag)}

\* the call of this step repeats the tag sync before it, which wrote
RepeatsTagSync ==
    /\ last.op \in TagOps
    /\ SameCall(last, last')
    /\ ~last.dry_run /\ ~last.fresh /\ ~last.raised

\* C6: the second of two identical tag syncs (dry_run = false, sync_to_engine
\* without fresh, or sync_to_rekordbox) reports categories_created = 0 and
\* tags_created = 0 and leaves the target's set of categories and tags as the
\* first run left it.
C6_SecondTagSyncCreatesNothing ==
    [][RepeatsTagSync
       => (/\ ~last'.raised
           /\ last'.stats.categories_created = 0
           /\ last'.stats.tags_created = 0
           /\ TagEntries(engine', rekordbox', last'.op)
                = TagEntries(engine, rekordbox, last'.op))]_vars

\* C6: the Engine DJ tag sync has run twice with the same arguments, and the
\* first run created categories and tags
C6_Witness ==
    /\ last.op = "sync_to_engine" /\ SameCall(prev, last)
    /\ ~last.dry_run /\ ~last.fresh /\ ~prev.raised /\ ~last.raised
    /\ prev.stats.categories_created > 0
    /\ prev.stats.tags_created > 0

\* the libraries sync_playlist_to_all has to report on
ConfiguredOthers(source) ==
    {l \in LibraryNames \ {source} :
        \/ l = "manadj"
        \/ l = "engine" /\ engine_db
        \/ l = "rekordbox" /\ rb_db}

OneResultEach(results, libraries) ==
    /\ Len(results) = Cardinality(libraries)
    /\ {results[i].target : i \in DOMAIN results} = libraries

\* C7: sync_playlist_to_all returns exactly one SyncResult for each configured
\* library other than the source and none for an unconfigured one, also when
\* one of the targets fails.
C7_OneResultPerLibrary ==
    last.op = "sync_playlist_to_all"
        => ~last.raised /\ OneResultEach(last.results, ConfiguredOthers(last.source))

\* C7, the calls that do not reach the Engine DJ matching
C7_OneResultPerLibraryWithoutEngine ==
    (last.op = "sync_playlist_to_all" /\ ~last.raised)
        => OneResultEach(last.results, ConfiguredOthers(last.source))

\* C7: sync_playlist_to_all with Engine DJ among its targets was left by an
\* exception
C7_Witness ==
    /\ last.op = "sync_playlist_to_all"
    /\ engine_db /\ last.source # "engine"
    /\ last.raised

\* the path of the track of a library that matches the path: the same path,
\* else one with the same file name
MatchedPath(path, paths) ==
    LET same == {q \in paths : PathName(q) = PathName(path)}
    IN  IF path \in paths THEN <<path>>
        ELSE IF same = {} THEN <<>> ELSE <<CHOOSE q \in same : TRUE>>

RECURSIVE MatchedPaths(_, _)
MatchedPaths(track_refs, paths) ==
    IF track_refs = <<>> THEN <<>>
    ELSE MatchedPath(Head(track_refs).path, paths)
            \o MatchedPaths(Tail(track_refs), paths)

\* the target tracks matched for the tracks of the called playlist, in order
CalledMatched ==
    MatchedPaths(CalledPlaylist[1].tracks,
                 TrackPaths(manadj, engine, rekordbox, engine_db, rb_db, last'.target))

SucceedsWriting ==
    /\ last'.op = "sync_playlist_to_target"
    /\ ~last'.raised /\ last'.result.success /\ ~last'.dry_run

\* C8: after a sync_playlist_to_target call that returns success = true with
\* dry_run = false, the target's reader lists for the playlist exactly the
\* target tracks matched for the source tracks, in source order and with the
\* same multiplicity.
C8_ReadBackIsMatched ==
    [][SucceedsWriting
       => ReadPlaylist(manadj', engine', rekordbox', last'.target, last'.playlist_name)
            = CalledMatched]_vars

\* C8 for the target manadj
C8_ReadBackIsMatchedInManadj ==
    [][(SucceedsWriting /\ last'.target = "manadj")
       => ReadPlaylist(manadj', engine', rekordbox', last'.target, last'.playlist_name)
            = CalledMatched]_vars

\* C8: a playlist Rekordbox already had was synced to it with success
C8_Witness ==
    /\ last.op = "sync_playlist_to_target" /\ last.target = "rekordbox"
    /\ ~last.dry_run /\ last.result.success /\ last.result.created
    /\ Cardinality({i \in DOMAIN rekordbox.DjmdPlaylist :
                        /\ rekordbox.DjmdPlaylist[i].Name = last.playlist_name
                        /\ rekordbox.DjmdPlaylist[i].ParentID = RootID}) > 1

\* the entry of a library in a view is there with the track count of manadj
AgreesWithManadj(v, entry) ==
    entry # <<>> /\ entry[1].track_count = v.manadj[1].track_count

TaggedTracks ==
    LET Tagged(t) == ManadjTagIds(manadj, t) # <<>>
    IN  Range(SelectSeq(manadj.tracks, Tagged))

\* the Engine DJ tracks a manadj track matches: by path, else by file name
EngineTargets(t) ==
    LET by_path == {x \in Range(engine.Track) : x.path = t.filename}
    IN  IF by_path # {} THEN by_path
        ELSE {x \in Range(engine.Track) : PathName(x.path) = PathName(t.filename)}

EveryTaggedTrackMatchesDistinct ==
    /\ \A t \in TaggedTracks : Cardinality(EngineTargets(t)) = 1
    /\ \A t, u \in TaggedTracks : t # u => EngineTargets(t) \cap EngineTargets(u) = {}

\* the Engine DJ playlists of a tag: named like the tag, under a playlist
\* named like the category, under the tag root
TagPlaylists(category_name, tag_name) ==
    {pl \in Range(engine.Playlist) :
        /\ pl.title = tag_name
        /\ \E cat \in Range(engine.Playlist), root \in Range(engine.Playlist) :
              /\ pl.parentListId = cat.id /\ cat.title = category_name
              /\ cat.parentListId = root.id
              /\ root.title = TagRootTitle /\ root.parentListId = 0}

\* the manadj tracks that carry a tag of the pair
TracksOfPair(category_name, tag_name) ==
    {t \in TaggedTracks : <<category_name, tag_name>> \in TagPairsOf(t)}

\* the tag playlists of the pair hold exactly the tracks matched for it
HoldsMatchedTracks(category_name, tag_name) ==
    \A pl \in TagPlaylists(category_name, tag_name) :
        {en.trackId : en \in {x \in Range(engine.PlaylistEntity) : x.listId = pl.id}}
            = {x.id : x \in UNION {EngineTargets(t) :
                                    t \in TracksOfPair(category_name, tag_name)}}

AfterEngineOnlyTagSync ==
    /\ last.op = "sync_to_engine" /\ ~last.dry_run /\ ~last.raised
    /\ engine_db /\ ~rb_db
    /\ EveryTaggedTrackMatchesDistinct

\* C10: with Engine DJ the only other configured library, after
\* sync_to_engine(dry_run = false) on a manadj library whose tagged tracks
\* each match a distinct Engine DJ track, the unified view reports every pair
\* of manadj as synced and every tag playlist holds exactly the matched
\* tracks of its tag.
C10_EveryPairSynced ==
    AfterEngineOnlyTagSync =>
        \A v \in GetUnifiedView(manadj, engine, rekordbox, engine_db, rb_db) :
            v.manadj # <<>> =>
                v.synced /\ HoldsMatchedTracks(v.category_name, v.tag_name)

\* C10 for the tags that a track carries: the tag writer makes no playlist
\* for a tag without tracks
C10_EveryCarriedPairSynced ==
    AfterEngineOnlyTagSync =>
        \A v \in GetUnifiedView(manadj, engine, rekordbox, engine_db, rb_db) :
            (v.manadj # <<>> /\ v.manadj[1].track_count > 0) =>
                /\ v.synced
                /\ TagPlaylists(v.category_name, v.tag_name) # {}
                /\ HoldsMatchedTracks(v.category_name, v.tag_name)

\* C10: the sync has made the playlist of a tag with tracks, and manadj has a
\* tag that no track carries
C10_Witness ==
    /\ AfterEngineOnlyTagSync
    /\ last.stats.tags_created > 0
    /\ \E v \in GetUnifiedView(manadj, engine, rekordbox, engine_db, rb_db) :
          v.manadj # <<>> /\ v.manadj[1].track_count = 0

(* ------------------- backend/playlists: unified view ------------------- *)

\* the comparison loop of are_playlists_equivalent over the index of
\* playlist_b: the track of playlist_a matched into playlist_b is the very
\* track playlist_b holds at that position
TracksMatchInOrder(tracks_a, tracks_b, index) ==
    \A i \in DOMAIN tracks_a :
        MatchTrackTwoTier(tracks_a[i].path, index.by_path, index.by_filename)
            = <<tracks_b[i]>>

\* are_playlists_equivalent: both getters return the path of the reference
ArePlaylistsEquivalent(playlist_a, playlist_b) ==
    IF Len(playlist_a.tracks) # Len(playlist_b.tracks) THEN FALSE
    ELSE TracksMatchInOrder(playlist_a.tracks, playlist_b.tracks,
            IndexTracksByPath(playlist_b.tracks,
                              [i \in DOMAIN playlist_b.tracks |-> playlist_b.tracks[i].path],
                              [i \in DOMAIN playlist_b.tracks |-> playlist_b.tracks[i].path]))

\* {p.name: p for p in playlists}.get(name): the last playlist of the name
PlaylistByName(playlists, name) ==
    LET named == {i \in DOMAIN playlists : playlists[i].name = name}
    IN  IF named = {} THEN <<>> ELSE <<playlists[MaxOf(named)]>>

\* match_playlists_by_name: for every name of any library, the playlist of
\* each library with that name (<<>> for None)
MatchPlaylistsByName(all_playlists) ==
    LET all_names == {all_playlists.manadj[i].name : i \in DOMAIN all_playlists.manadj}
                     \cup {all_playlists.engine[i].name : i \in DOMAIN all_playlists.engine}
                     \cup {all_playlists.rekordbox[i].name : i \in DOMAIN all_playlists.rekordbox}
    IN  [name \in all_names |->
            [manadj |-> PlaylistByName(all_playlists.manadj, name),
             engine |-> PlaylistByName(all_playlists.engine, name),
             rekordbox |-> PlaylistByName(all_playlists.rekordbox, name)]]

\* the playlists of sources.values() that are not None, in dict order
ExistingPlaylists(sources) == sources.manadj \o sources.engine \o sources.rekordbox

\* PlaylistSyncManager._check_if_synced: the first existing playlist is
\* compared against each of the others
PlaylistCheckIfSynced(sources) ==
    LET playlists == ExistingPlaylists(sources)
    IN  IF Len(playlists) <= 1 THEN TRUE
        ELSE \A i \in 2..Len(playlists) : ArePlaylistsEquivalent(playlists[1], playlists[i])

TrackEntry(filename, track_id) == [filename |-> filename, track_id |-> track_id]

\* the TrackEntry list of a source, <<>> for None
TrackEntries(found) ==
    IF found = <<>> THEN <<>>
    ELSE << [i \in DOMAIN found[1].tracks |->
                TrackEntry(found[1].tracks[i].filename, found[1].tracks[i].track_id)] >>

UnifiedPlaylist(name, sources) ==
    [name |-> name, manadj |-> TrackEntries(sources.manadj),
     engine |-> TrackEntries(sources.engine),
     rekordbox |-> TrackEntries(sources.rekordbox),
     synced |-> PlaylistCheckIfSynced(sources)]

\* PlaylistSyncManager.get_unified_view
PlaylistGetUnifiedView(m, e, r, has_engine, has_rb) ==
    LET matched == MatchPlaylistsByName(LoadAllPlaylists(m, e, r, has_engine, has_rb))
    IN  {UnifiedPlaylist(name, matched[name]) : name \in DOMAIN matched}

\* the longest playlist of the libraries below
MaxTracks == 2

\* the track lists a playlist can hold: <<>> when the library has no
\* playlist 'a', <<ids>> when it holds the tracks ids in this order
HeldLists(ids) == {<<>>} \cup {<<held>> : held \in UNION {[1..n -> ids] : n \in 0..MaxTracks}}

\* Engine DJ keeps a track once per playlist
HeldOnce(ids) == {h \in HeldLists(ids) : h # <<>> => \A i, j \in DOMAIN h[1] : h[1][i] = h[1][j] => i = j}

\* manadj with two files of one name in two directories, and a third
ManadjHolding(held) ==
    [tracks |-> << [id |-> 1, filename |-> P("/r1", "x.mp3"), energy |-> <<>>],
                   [id |-> 2, filename |-> P("/r2", "x.mp3"), energy |-> <<>>],
                   [id |-> 3, filename |-> P("/m", "y.mp3"), energy |-> <<>>] >>,
     playlists |-> IF held = <<>> THEN <<>>
                   ELSE << [id |-> 1, name |-> PlaylistA, display_order |-> 0] >>,
     playlist_tracks |-> IF held = <<>> THEN <<>>
                         ELSE [i \in DOMAIN held[1] |->
                                 [id |-> i, playlist_id |-> 1, track_id |-> held[1][i],
                                  position |-> i - 1]],
     tag_categories |-> <<>>, tags |-> <<>>, track_tags |-> <<>>]

\* Engine DJ with x.mp3 and y.mp3 under its own directory
EngineHolding(held) ==
    [Track |-> << [id |-> 11, path |-> P("/e", "x.mp3"), filename |-> P("", "x.mp3")],
                  [id |-> 12, path |-> P("/e", "y.mp3"), filename |-> P("", "y.mp3")] >>,
     Playlist |-> IF held = <<>> THEN <<>>
                  ELSE << [id |-> 1, title |-> PlaylistA, parentListId |-> 0,
                           nextListId |-> 0, isPersisted |-> TRUE] >>,
     PlaylistEntity |-> IF held = <<>> THEN <<>>
                        ELSE [i \in DOMAIN held[1] |->
                                [id |-> i, listId |-> 1, trackId |-> held[1][i],
                                 nextEntityId |-> IF i < Len(held[1]) THEN i + 1 ELSE 0]]]

SongIDs == <<"s1", "s2", "s3">>

\* Rekordbox with one of the two x.mp3 of manadj under the same path
RekordboxHolding(held) ==
    [RekordboxEmpty EXCEPT
        !.DjmdContent = << [ID |-> "c1", FolderPath |-> P("/r1", "x.mp3"), ColorID |-> "0"],
                           [ID |-> "c2", FolderPath |-> P("/q", "x.mp3"), ColorID |-> "0"],
                           [ID |-> "c3", FolderPath |-> P("/r", "y.mp3"), ColorID |-> "0"] >>,
        !.DjmdPlaylist = IF held = <<>> THEN <<>>
                         ELSE << [ID |-> "p1", Name |-> PlaylistA, ParentID |-> RootID,
                                  Seq |-> 1] >>,
        !.DjmdSongPlaylist = IF held = <<>> THEN <<>>
                             ELSE [i \in DOMAIN held[1] |->
                                     [ID |-> SongIDs[i], PlaylistID |-> "p1",
                                      ContentID |-> held[1][i], TrackNo |-> i]]]

\* the libraries hold the playlist 'a' or not, with any tracks in any order
ViewInit ==
    /\ manadj \in {ManadjHolding(held) : held \in HeldLists({1, 2, 3})}
    /\ engine_db \in BOOLEAN
    /\ engine \in IF engine_db THEN {EngineHolding(held) : held \in HeldOnce({11, 12})}
                  ELSE {EngineEmpty}
    /\ rb_db \in BOOLEAN
    /\ rekordbox \in IF rb_db
                     THEN {RekordboxHolding(held) : held \in HeldLists({"c1", "c2", "c3"})}
                     ELSE {RekordboxEmpty}
    /\ last = NoCall
    /\ prev = NoCall
    /\ steps = 0

\* PlaylistSyncManager.get_unified_view
GetUnifiedPlaylistViewCall ==
    /\ steps < MaxSteps
    /\ last' = [NoCall EXCEPT !.op = "get_unified_playlist_view",
                              !.view = PlaylistGetUnifiedView(manadj, engine, rekordbox,
                                                              engine_db, rb_db)]
    /\ prev' = last
    /\ steps' = steps + 1
    /\ UNCHANGED <<manadj, engine, rekordbox, engine_db, rb_db>>

ViewNext == GetUnifiedPlaylistViewCall

ViewSpec == ViewInit /\ [][ViewNext]_vars

\* the playlists of a name that exist, one per library that has it
SourcesOf(name) ==
    ExistingPlaylists(MatchPlaylistsByName(
        LoadAllPlaylists(manadj, engine, rekordbox, engine_db, rb_db))[name])

\* every two existing track lists of a name are equivalent, either way round
AllPairsEquivalent(playlists) ==
    \A i, j \in DOMAIN playlists : ArePlaylistsEquivalent(playlists[i], playlists[j])

\* C11: in the unified playlist view, the synced flag of a name is true
\* exactly when every pair of track lists that exist for the name is
\* equivalent in content and order, in both directions of the comparison, so
\* that it does not depend on which existing source is the comparison base
C11_SyncedIffAllPairsEquivalent ==
    last.op = "get_unified_playlist_view" =>
        \A v \in last.view : v.synced <=> AllPairsEquivalent(SourcesOf(v.name))

\* C11: the view reports a name as synced although two of its track lists
\* are not equivalent when compared the other way round
C11_Witness ==
    /\ last.op = "get_unified_playlist_view"
    /\ \E v \in last.view :
          /\ v.synced
          /\ Len(SourcesOf(v.name)) >= 2
          /\ ~AllPairsEquivalent(SourcesOf(v.name))

(* ---------------- sync_common/matching: two-tier matcher ---------------- *)

\* the most tracks an indexed library holds
MaxIndexed == 3

\* the paths of indexed tracks: two directories hold a file x.mp3
IndexedPaths == {P("/a", "x.mp3"), P("/b", "x.mp3"), P("/a", "y.mp3")}

\* the paths asked for: indexed ones, a third x.mp3 and a file nobody has
QueryPaths == IndexedPaths \cup {P("/c", "x.mp3"), P("/c", "z.mp3")}

\* Engine DJ track tables of up to max rows: path is unique and may be NULL,
\* filename may be NULL
EngineTrackTables(max) ==
    LET rows(n) == [1..n -> [path : IndexedPaths \cup {NoPath},
                             filename : {NoPath, P("", "x.mp3"), P("", "y.mp3")}]]
        unique(t) == \A i, j \in DOMAIN t : (t[i].path = t[j].path /\ i # j) => t[i].path = NoPath
    IN  {[i \in DOMAIN t |-> [id |-> 10 + i, path |-> t[i].path, filename |-> t[i].filename]] :
            t \in {u \in UNION {rows(n) : n \in 0..max} : unique(u)}}

IndexedLibraries == EngineTrackTables(MaxIndexed)

\* the target library is any track table; manadj supplies the query paths
MatchInit ==
    /\ manadj = ManadjHolding(<<>>)
    /\ engine_db = TRUE
    /\ engine \in {[EngineEmpty EXCEPT !.Track = tracks] : tracks \in IndexedLibraries}
    /\ rb_db = FALSE
    /\ rekordbox = RekordboxEmpty
    /\ last = NoCall
    /\ prev = NoCall
    /\ steps = 0

\* match_track_two_tier against the index of a track list
MatchIntoIndex(source_path, index) ==
    MatchTrackTwoTier(source_path, index.by_path, index.by_filename)

\* index_tracks_by_path(tracks, path, filename), then match_track_two_tier
MatchTrackTwoTierCall ==
    /\ steps < MaxSteps
    /\ \E source_path \in QueryPaths :
          last' = [op |-> "match_track_two_tier", source_path |-> source_path,
                   result |-> MatchIntoIndex(source_path, IndexEngineTracks(engine.Track))]
    /\ prev' = last
    /\ steps' = steps + 1
    /\ UNCHANGED <<manadj, engine, rekordbox, engine_db, rb_db>>

MatchNext == MatchTrackTwoTierCall

MatchSpec == MatchInit /\ [][MatchNext]_vars

\* the indexed tracks stored under a full path
TracksAt(path) == {i \in DOMAIN engine.Track : engine.Track[i].path = path}

\* the indexed tracks whose filename has the basename of a path
TracksNamed(path) ==
    {i \in DOMAIN engine.Track : /\ engine.Track[i].filename # NoPath
                                 /\ PathName(engine.Track[i].filename) = PathName(path)}

\* C12: a query equal to the full path of an indexed track returns that
\* track whatever other track shares its basename; the basename index decides
\* only when no indexed track has the full path (the last indexed track of
\* the basename is returned), and the result is null when both lookups miss
C12_FullPathFirst ==
    last.op = "match_track_two_tier" =>
        IF TracksAt(last.source_path) # {}
        THEN \A i \in TracksAt(last.source_path) : last.result = <<engine.Track[i]>>
        ELSE IF TracksNamed(last.source_path) # {}
             THEN last.result = <<engine.Track[MaxOf(TracksNamed(last.source_path))]>>
             ELSE last.result = <<>>

\* C12: the query is the full path of an indexed track, and a track indexed
\* later under another full path has the same basename
C12_Witness ==
    /\ last.op = "match_track_two_tier"
    /\ \E i \in TracksAt(last.source_path) :
          /\ last.result = <<engine.Track[i]>>
          /\ \E j \in TracksNamed(last.source_path) :
                j > i /\ engine.Track[j].path # last.source_path

(* -------------------------- dry run and real run ----------------------- *)

\* the call of this step is the dry run before it made for real, without
\* an injected fault
RunsDryRunForReal ==
    /\ last.op \in TagOps \cup PlaylistOps
    /\ last.dry_run /\ ~last'.dry_run
    /\ SameCall([last EXCEPT !.dry_run = FALSE], last')
    /\ last'.faults = {}

\* what a caller reads from a SyncResult
Reported(result) ==
    <<result.success, result.created, result.tracks_synced, result.tracks_unmatched>>

\* what a caller reads from the tag sync statistics
ReportedStats(stats) ==
    <<stats.categories_created, stats.categories_updated, stats.tags_created,
      stats.tags_updated, stats.tracks_matched, stats.tracks_unmatched>>

\* what a call returned, or that it raised
Returned(call) ==
    IF call.raised THEN <<"raised">>
    ELSE IF call.op = "sync_playlist_to_target" THEN <<Reported(call.result)>>
    ELSE IF call.op = "sync_playlist_to_all"
    THEN [i \in DOMAIN call.results |-> Reported(call.results[i])]
    ELSE <<ReportedStats(call.stats)>>

\* C13: a dry run returns what the real run returns on the same state:
\* success, created, tracks_synced and tracks_unmatched of a playlist sync,
\* and the categories and tags created and updated and the tracks matched and
\* unmatched of a tag sync.
C13_DryRunPredictsRealRun ==
    [][RunsDryRunForReal => Returned(last') = Returned(last)]_vars

\* C13: a playlist was synced as a dry run and then for real into a library
\* that did not have it, and both runs succeeded
C13_Witness ==
    /\ last.op = "sync_playlist_to_target" /\ prev.op = "sync_playlist_to_target"
    /\ prev.dry_run /\ ~last.dry_run
    /\ SameCall([prev EXCEPT !.dry_run = FALSE], last)
    /\ prev.result.success /\ last.result.success
    /\ last.result.created

(* -------------------- Rekordbox tag sync, track by track ---------------- *)

\* manadj where b.mp3 carries no tag and no energy
ManadjUntagged == [ManadjOne EXCEPT !.track_tags = << [track_id |-> 1, tag_id |-> 1] >>]

\* Rekordbox where both tracks carry the tag Old, which manadj does not have
RekordboxAssigned ==
    [RekordboxTwo EXCEPT
        !.DjmdSongMyTag = << [ID |-> "g1", ContentID |-> "c1", MyTagID |-> "t5"],
                             [ID |-> "g2", ContentID |-> "c2", MyTagID |-> "t5"] >>]

RekordboxTagInit ==
    /\ manadj \in {ManadjOne, ManadjUntagged}
    /\ engine_db = FALSE
    /\ engine = EngineEmpty
    /\ rb_db \in BOOLEAN
    /\ rekordbox \in IF rb_db THEN RekordboxStates \cup {RekordboxAssigned}
                     ELSE {RekordboxEmpty}
    /\ last = NoCall
    /\ prev = NoCall
    /\ steps = 0

RekordboxTagNext == TagSyncToRekordboxCall

RekordboxTagSpec == RekordboxTagInit /\ [][RekordboxTagNext]_vars

\* the manadj tracks that match a Rekordbox track
SourcesOfContent(c) == {t \in Range(manadj.tracks) : c \in RbTargets(t)}

\* the MyTag is none of the track's tags and not its energy
TargetOnly(t, id) ==
    /\ \A pair \in TagPairsOf(t) : ~IsMyTagFor(id, pair[1], pair[2])
    /\ ~(HasEnergy(t) /\ IsEnergyTag(id))

\* the assignments of matched Rekordbox tracks that no matching manadj track
\* accounts for, as <<ContentID, MyTagID>>
TargetOnlyAssignments ==
    {<<a.ContentID, a.MyTagID>> : a \in
        {b \in Range(rekordbox.DjmdSongMyTag) :
            \E c \in Range(rekordbox.DjmdContent) :
                /\ c.ID = b.ContentID
                /\ SourcesOfContent(c) # {}
                /\ \A t \in SourcesOfContent(c) : TargetOnly(t, b.MyTagID)}}

\* C14: a Rekordbox tag sync with dry_run = false leaves no matched target
\* track with a tag assignment that existed only in the target, also when the
\* matching manadj track carries no tag and no energy.
C14_TargetOnlyAssignmentsCleared ==
    [][(last'.op = "sync_to_rekordbox" /\ ~last'.dry_run /\ ~last'.raised)
       => \A pair \in TargetOnlyAssignments :
             \A a \in Range(rekordbox'.DjmdSongMyTag) :
                 <<a.ContentID, a.MyTagID>> # pair]_vars

\* C14: the sync has run over a library where a Rekordbox track carries a tag
\* and its manadj counterpart carries neither tag nor energy, and the
\* assignment is still there
C14_Witness ==
    /\ AfterRekordboxTagSync
    /\ \E t \in Range(manadj.tracks) :
          /\ t.energy = <<>> /\ TagPairsOf(t) = {}
          /\ \E c \in RbTargets(t) : \E id \in AssignedMyTags(c) : TargetOnly(t, id)

(* --------------------------- unconfigured target ----------------------- *)

\* the library is 'engine' or 'rekordbox' and the manager has no database
\* for it
NotConfigured(library) ==
    \/ library = "engine" /\ ~engine_db
    \/ library = "rekordbox" /\ ~rb_db

\* C15: sync_playlist_to_target into 'engine' or 'rekordbox' returns success
\* = false when that target is not configured, whatever the playlist holds
\* and whatever ignore_missing_tracks and dry_run are.
C15_UnconfiguredTargetFails ==
    (last.op = "sync_playlist_to_target" /\ NotConfigured(last.target) /\ ~last.raised)
        => ~last.result.success

\* C15: a sync into an unconfigured target has reported success
C15_Witness ==
    /\ last.op = "sync_playlist_to_target"
    /\ NotConfigured(last.target) /\ ~last.raised
    /\ last.result.success

(* ------------------- enginedj/sync, rekordbox/sync --------------------- *)

\* a faulty forward search that counts a track without a file and reports
\* it all the same; C16 must not hold with it
FindMissingWithoutContinue(manadj_tracks, edj_tracks, validate_paths, on_disk) ==
    LET index == IndexEngineTracks(edj_tracks)
        Unmatched(track) == MatchTrack(track, index.by_path, index.by_filename) = <<>>
        Skipped(track) == Unmatched(track) /\ validate_paths /\ track.filename \notin on_disk
    IN  [missing |-> SelectSeq(manadj_tracks, Unmatched),
         stats |-> [manadj_tracks |-> Len(manadj_tracks),
                    enginedj_tracks |-> Len(edj_tracks),
                    missing_count |-> Len(SelectSeq(manadj_tracks, Unmatched)),
                    skipped_file_not_found |-> Len(SelectSeq(manadj_tracks, Skipped))]]

\* find_missing_tracks_in_enginedj; on_disk holds the paths p for which
\* Path(p).exists()
FindMissingTracksInEnginedj(manadj_tracks, edj_tracks, validate_paths, on_disk) ==
    LET index == IndexEngineTracks(edj_tracks)
        Unmatched(track) == MatchTrack(track, index.by_path, index.by_filename) = <<>>
        Skipped(track) == Unmatched(track) /\ validate_paths /\ track.filename \notin on_disk
        Missing(track) == Unmatched(track) /\ ~Skipped(track)
    IN  [missing |-> SelectSeq(manadj_tracks, Missing),
         stats |-> [manadj_tracks |-> Len(manadj_tracks),
                    enginedj_tracks |-> Len(edj_tracks),
                    missing_count |-> Len(SelectSeq(manadj_tracks, Missing)),
                    skipped_file_not_found |-> Len(SelectSeq(manadj_tracks, Skipped))]]

\* find_missing_tracks_in_rekordbox
FindMissingTracksInRekordbox(manadj_tracks, rb_contents, validate_paths, on_disk) ==
    LET index == IndexRekordboxTracks(rb_contents)
        Unmatched(track) == MatchTrackRekordbox(track, index.by_path, index.by_filename) = <<>>
        Skipped(track) == Unmatched(track) /\ validate_paths /\ track.filename \notin on_disk
        Missing(track) == Unmatched(track) /\ ~Skipped(track)
    IN  [missing |-> SelectSeq(manadj_tracks, Missing),
         stats |-> [manadj_tracks |-> Len(manadj_tracks),
                    rekordbox_tracks |-> Len(rb_contents),
                    missing_count |-> Len(SelectSeq(manadj_tracks, Missing)),
                    skipped_file_not_found |-> Len(SelectSeq(manadj_tracks, Skipped))]]

\* a faulty reverse search that knows manadj tracks by full path only; C17
\* must not hold with it
FindMissingByPathOnly(manadj_tracks, edj_tracks) ==
    LET Missing(edj_track) ==
            ~(edj_track.path # NoPath
              /\ edj_track.path \in {manadj_tracks[i].filename : i \in DOMAIN manadj_tracks})
    IN  [missing |-> SelectSeq(edj_tracks, Missing),
         stats |-> [missing_count |-> Len(SelectSeq(edj_tracks, Missing))]]

\* find_missing_tracks_in_manadj (enginedj/sync)
FindMissingTracksInManadj(manadj_tracks, edj_tracks) ==
    LET manadj_tracks_by_path == {manadj_tracks[i].filename : i \in DOMAIN manadj_tracks}
        manadj_tracks_by_filename ==
            {PathName(manadj_tracks[i].filename) : i \in DOMAIN manadj_tracks}
        Missing(edj_track) ==
            /\ ~(edj_track.path # NoPath /\ edj_track.path \in manadj_tracks_by_path)
            /\ ~(/\ edj_track.filename # NoPath
                 /\ PathName(edj_track.filename) \in manadj_tracks_by_filename)
    IN  [missing |-> SelectSeq(edj_tracks, Missing),
         stats |-> [missing_count |-> Len(SelectSeq(edj_tracks, Missing))]]

\* find_missing_tracks_in_manadj_from_rekordbox
FindMissingTracksInManadjFromRekordbox(manadj_tracks, rb_contents) ==
    LET manadj_tracks_by_path == {manadj_tracks[i].filename : i \in DOMAIN manadj_tracks}
        manadj_tracks_by_filename ==
            {PathName(manadj_tracks[i].filename) : i \in DOMAIN manadj_tracks}
        Missing(rb_track) ==
            /\ rb_track.FolderPath # NoPath
            /\ rb_track.FolderPath \notin manadj_tracks_by_path
            /\ PathName(rb_track.FolderPath) \notin manadj_tracks_by_filename
    IN  [missing |-> SelectSeq(rb_contents, Missing),
         stats |-> [missing_count |-> Len(SelectSeq(rb_contents, Missing))]]

\* the most tracks of a library that is reconciled
MaxReconciled == 2

\* the calls made in a row to an operation that reads and never writes
MaxCalls == 1

\* manadj track tables: filename is unique and never NULL
ManadjTrackTables ==
    {[i \in DOMAIN t |-> [id |-> i, filename |-> t[i], energy |-> <<>>]] :
        t \in {u \in UNION {[1..n -> IndexedPaths] : n \in 0..MaxReconciled} :
                \A i, j \in DOMAIN u : u[i] = u[j] => i = j}}

ContentIDs == <<"c1", "c2", "c3">>

\* Rekordbox content tables: FolderPath may be NULL
ContentTables ==
    {[i \in DOMAIN t |-> [ID |-> ContentIDs[i], FolderPath |-> t[i], ColorID |-> "0"]] :
        t \in UNION {[1..n -> IndexedPaths \cup {NoPath}] : n \in 0..MaxReconciled}}

\* manadj is reconciled with Engine DJ or with Rekordbox
TrackInit ==
    /\ manadj \in {[ManadjHolding(<<>>) EXCEPT !.tracks = tracks] : tracks \in ManadjTrackTables}
    /\ engine_db \in BOOLEAN
    /\ rb_db = ~engine_db
    /\ engine \in IF engine_db
                  THEN {[EngineEmpty EXCEPT !.Track = tracks] :
                            tracks \in EngineTrackTables(MaxReconciled)}
                  ELSE {EngineEmpty}
    /\ rekordbox \in IF rb_db
                     THEN {[RekordboxEmpty EXCEPT !.DjmdContent = contents] :
                               contents \in ContentTables}
                     ELSE {RekordboxEmpty}
    /\ last = NoCall
    /\ prev = NoCall
    /\ steps = 0

\* the record of a reconciliation call and what it returned
TrackCall(op, validate_paths, on_disk, out) ==
    [op |-> op, validate_paths |-> validate_paths, on_disk |-> on_disk,
     missing |-> out.missing, stats |-> out.stats]

FindMissingTracksInEnginedjCall ==
    /\ engine_db /\ steps < MaxCalls
    /\ \E validate_paths \in BOOLEAN, on_disk \in SUBSET IndexedPaths :
          last' = TrackCall("find_missing_tracks_in_enginedj", validate_paths, on_disk,
                            FindMissingTracksInEnginedj(manadj.tracks, engine.Track,
                                                        validate_paths, on_disk))
    /\ prev' = last
    /\ steps' = steps + 1
    /\ UNCHANGED <<manadj, engine, rekordbox, engine_db, rb_db>>

FindMissingTracksInRekordboxCall ==
    /\ rb_db /\ steps < MaxCalls
    /\ \E validate_paths \in BOOLEAN, on_disk \in SUBSET IndexedPaths :
          last' = TrackCall("find_missing_tracks_in_rekordbox", validate_paths, on_disk,
                            FindMissingTracksInRekordbox(manadj.tracks, rekordbox.DjmdContent,
                                                         validate_paths, on_disk))
    /\ prev' = last
    /\ steps' = steps + 1
    /\ UNCHANGED <<manadj, engine, rekordbox, engine_db, rb_db>>

FindMissingTracksInManadjCall ==
    /\ engine_db /\ steps < MaxCalls
    /\ last' = TrackCall("find_missing_tracks_in_manadj", FALSE, {},
                         FindMissingTracksInManadj(manadj.tracks, engine.Track))
    /\ prev' = last
    /\ steps' = steps + 1
    /\ UNCHANGED <<manadj, engine, rekordbox, engine_db, rb_db>>

FindMissingTracksInManadjFromRekordboxCall ==
    /\ rb_db /\ steps < MaxCalls
    /\ last' = TrackCall("find_missing_tracks_in_manadj_from_rekordbox", FALSE, {},
                         FindMissingTracksInManadjFromRekordbox(manadj.tracks,
                                                                rekordbox.DjmdContent))
    /\ prev' = last
    /\ steps' = steps + 1
    /\ UNCHANGED <<manadj, engine, rekordbox, engine_db, rb_db>>

TrackNext ==
    \/ FindMissingTracksInEnginedjCall
    \/ FindMissingTracksInRekordboxCall
    \/ FindMissingTracksInManadjCall
    \/ FindMissingTracksInManadjFromRekordboxCall

TrackSpec == TrackInit /\ [][TrackNext]_vars

ForwardOps == {"find_missing_tracks_in_enginedj", "find_missing_tracks_in_rekordbox"}

\* m matches e: the manadj filename is the Engine DJ path, or both have the
\* same file name
MatchesTrack(m, e) ==
    \/ e.path # NoPath /\ m.filename = e.path
    \/ e.filename # NoPath /\ PathName(m.filename) = PathName(e.filename)

\* m matches c: the manadj filename is the Rekordbox path, or has its name
MatchesContent(m, c) ==
    /\ c.FolderPath # NoPath
    /\ (m.filename = c.FolderPath \/ PathName(m.filename) = PathName(c.FolderPath))

\* the primary track has a counterpart in the target of the call
HasCounterpart(m, op) ==
    IF op = "find_missing_tracks_in_enginedj"
    THEN \E e \in Range(engine.Track) : MatchesTrack(m, e)
    ELSE \E c \in Range(rekordbox.DjmdContent) : MatchesContent(m, c)

\* the primary tracks, split by what the forward search makes of them
MatchedTracks == {m \in Range(manadj.tracks) : HasCounterpart(m, last.op)}

MissingTracks == Range(last.missing)

SkippedTracks ==
    {m \in Range(manadj.tracks) : /\ last.validate_paths
                                  /\ ~HasCounterpart(m, last.op)
                                  /\ m.filename \notin last.on_disk}

\* C16: the forward search partitions the primary tracks into matched,
\* reported missing and skipped: the three counts add up to the number of
\* primary tracks; a track is skipped only when validate_paths is true, it
\* has no match and its file does not exist; a skipped track is never in the
\* missing list.
C16_ForwardSearchPartitions ==
    last.op \in ForwardOps =>
        /\ last.stats.skipped_file_not_found = Cardinality(SkippedTracks)
        /\ last.stats.missing_count = Cardinality(MissingTracks)
        /\ MissingTracks \cup MatchedTracks \cup SkippedTracks = Range(manadj.tracks)
        /\ MissingTracks \cap MatchedTracks = {}
        /\ MissingTracks \cap SkippedTracks = {}
        /\ MatchedTracks \cap SkippedTracks = {}
        /\ Cardinality(MatchedTracks) + last.stats.missing_count
              + last.stats.skipped_file_not_found = Len(manadj.tracks)

\* C16: a search with validate_paths over two primary tracks has skipped one
\* and matched or reported the other
C16_Witness ==
    /\ last.op \in ForwardOps /\ last.validate_paths
    /\ Len(manadj.tracks) = 2
    /\ last.stats.skipped_file_not_found = 1
    /\ last.stats.missing_count + Cardinality(MatchedTracks) = 1

ReverseOps == {"find_missing_tracks_in_manadj", "find_missing_tracks_in_manadj_from_rekordbox"}

\* the target tracks of a reverse search
TargetTracks(op) ==
    IF op = "find_missing_tracks_in_manadj" THEN Range(engine.Track)
    ELSE Range(rekordbox.DjmdContent)

\* the target track has a counterpart among the primary tracks
HasPrimary(e, op) ==
    IF op = "find_missing_tracks_in_manadj"
    THEN \E m \in Range(manadj.tracks) : MatchesTrack(m, e)
    ELSE \E m \in Range(manadj.tracks) : MatchesContent(m, e)

\* the target track the forward search matches a primary track to, <<>> for
\* None
ForwardMatch(m, op) ==
    IF op = "find_missing_tracks_in_manadj"
    THEN MatchIntoIndex(m.filename, IndexEngineTracks(engine.Track))
    ELSE MatchIntoIndex(m.filename, IndexRekordboxTracks(rekordbox.DjmdContent))

\* a forward search without validate_paths reports exactly the primary
\* tracks without a counterpart
ForwardReportsUnmatched ==
    (last.op \in ForwardOps /\ ~last.validate_paths) =>
        \A m \in Range(manadj.tracks) :
            m \in Range(last.missing) <=> ~HasCounterpart(m, last.op)

\* a target track the forward search matches is never reported by the
\* reverse search
MatchedNeverReported ==
    last.op \in ReverseOps =>
        \A m \in Range(manadj.tracks) :
            \A e \in Range(ForwardMatch(m, last.op)) : e \notin Range(last.missing)

\* C17: both directions of the track search use one matching relation: with
\* validate_paths = false a primary track is reported missing exactly when
\* no target track matches it, a target track is reported missing exactly
\* when no primary track matches it, and a target track the forward search
\* matches is never reported by the reverse search.
C17_SameRelationBothWays ==
    /\ ForwardReportsUnmatched
    /\ MatchedNeverReported
    /\ last.op \in ReverseOps =>
          \A e \in TargetTracks(last.op) :
              e \in Range(last.missing) <=> ~HasPrimary(e, last.op)

\* C17, as the code behaves: a Rekordbox track without a FolderPath matches
\* no primary track and is not reported either
C17_SameRelationForTracksWithPath ==
    /\ ForwardReportsUnmatched
    /\ MatchedNeverReported
    /\ last.op \in ReverseOps =>
          \A e \in TargetTracks(last.op) :
              (last.op = "find_missing_tracks_in_manadj_from_rekordbox" => e.FolderPath # NoPath)
                  => (e \in Range(last.missing) <=> ~HasPrimary(e, last.op))

\* C17: a reverse search has reported one target track and not reported
\* another, which a primary track matches by file name only
C17_Witness ==
    /\ last.op \in ReverseOps
    /\ last.missing # <<>>
    /\ \E m \in Range(manadj.tracks) : \E e \in Range(ForwardMatch(m, last.op)) :
          /\ e \notin Range(last.missing)
          /\ (IF last.op = "find_missing_tracks_in_manadj" THEN e.path ELSE e.FolderPath)
                # m.filename

(* ------------------------------ backend/key --------------------------- *)

\* Key._ENGINE_TO_ALL, the row of Engine DJ id k at position k + 1: musical,
\* Camelot, OpenKey (strings as sequences of characters) and Mixxx id
ENGINE_TO_ALL_ROWS ==
    << 
       <<<<"C">>, <<"8", "B">>, <<"1", "d">>, 1>>,
       <<<<"A", "m">>, <<"8", "A">>, <<"1", "m">>, 22>>,
       <<<<"G">>, <<"9", "B">>, <<"2", "d">>, 8>>,
       <<<<"E", "m">>, <<"9", "A">>, <<"2", "m">>, 17>>,
       <<<<"D">>, <<"1", "0", "B">>, <<"3", "d">>, 3>>,
       <<<<"B", "m">>, <<"1", "0", "A">>, <<"3", "m">>, 24>>,
       <<<<"A">>, <<"1", "1", "B">>, <<"4", "d">>, 10>>,
       <<<<"F", "#", "m">>, <<"1", "1", "A">>, <<"4", "m">>, 19>>,
       <<<<"E">>, <<"1", "2", "B">>, <<"5", "d">>, 5>>,
       <<<<"C", "#", "m">>, <<"1", "2", "A">>, <<"5", "m">>, 14>>,
       <<<<"B">>, <<"1", "B">>, <<"6", "d">>, 12>>,
       <<<<"G", "#", "m">>, <<"1", "A">>, <<"6", "m">>, 21>>,
       <<<<"F", "#">>, <<"2", "B">>, <<"7", "d">>, 7>>,
       <<<<"D", "#", "m">>, <<"2", "A">>, <<"7", "m">>, 16>>,
       <<<<"D", "b">>, <<"3", "B">>, <<"8", "d">>, 2>>,
       <<<<"B", "b", "m">>, <<"3", "A">>, <<"8", "m">>, 23>>,
       <<<<"A", "b">>, <<"4", "B">>, <<"9", "d">>, 9>>,
       <<<<"F", "m">>, <<"4", "A">>, <<"9", "m">>, 18>>,
       <<<<"E", "b">>, <<"5", "B">>, <<"1", "0", "d">>, 4>>,
       <<<<"C", "m">>, <<"5", "A">>, <<"1", "0", "m">>, 13>>,
       <<<<"B", "b">>, <<"6", "B">>, <<"1", "1", "d">>, 11>>,
       <<<<"G", "m">>, <<"6", "A">>, <<"1", "1", "m">>, 20>>,
       <<<<"F">>, <<"7", "B">>, <<"1", "2", "d">>, 6>>,
       <<<<"D", "m">>, <<"7", "A">>, <<"1", "2", "m">>, 15>> >>

ENGINE_TO_ALL == [k \in 0..(Len(ENGINE_TO_ALL_ROWS) - 1) |-> ENGINE_TO_ALL_ROWS[k + 1]]

\* {v[column]: k for k, v in _ENGINE_TO_ALL.items()}: the last id wins
ReverseMapping(column) ==
    [value \in {ENGINE_TO_ALL[k][column] : k \in DOMAIN ENGINE_TO_ALL} |->
        MaxOf({k \in DOMAIN ENGINE_TO_ALL : ENGINE_TO_ALL[k][column] = value})]

MUSICAL_TO_ENGINE == ReverseMapping(1)

CAMELOT_TO_ENGINE == ReverseMapping(2)

OPENKEY_TO_ENGINE == ReverseMapping(3)

MIXXX_TO_ENGINE == ReverseMapping(4)

\* Key._ENHARMONIC as its items in source order
ENHARMONIC_ITEMS ==
    << 
       <<<<"G", "b">>, <<"F", "#">>>>,
       <<<<"G", "b", "m">>, <<"F", "#", "m">>>>,
       <<<<"C", "#">>, <<"D", "b">>>>,
       <<<<"D", "b", "m">>, <<"C", "#", "m">>>>,
       <<<<"A", "b">>, <<"A", "b">>>>,
       <<<<"A", "b", "m">>, <<"G", "#", "m">>>>,
       <<<<"E", "b">>, <<"E", "b">>>>,
       <<<<"E", "b", "m">>, <<"D", "#", "m">>>>,
       <<<<"B", "b">>, <<"B", "b">>>>,
       <<<<"B", "b", "m">>, <<"B", "b", "m">>>>,
       <<<<"C", " ", "M", "a", "j", "o", "r">>, <<"C">>>>,
       <<<<"C", " ", "M", "i", "n", "o", "r">>, <<"C", "m">>>>,
       <<<<"G", " ", "M", "a", "j", "o", "r">>, <<"G">>>>,
       <<<<"G", " ", "M", "i", "n", "o", "r">>, <<"G", "m">>>>,
       <<<<"D", " ", "M", "a", "j", "o", "r">>, <<"D">>>>,
       <<<<"D", " ", "M", "i", "n", "o", "r">>, <<"D", "m">>>>,
       <<<<"A", " ", "M", "a", "j", "o", "r">>, <<"A">>>>,
       <<<<"A", " ", "M", "i", "n", "o", "r">>, <<"A", "m">>>>,
       <<<<"E", " ", "M", "a", "j", "o", "r">>, <<"E">>>>,
       <<<<"E", " ", "M", "i", "n", "o", "r">>, <<"E", "m">>>>,
       <<<<"B", " ", "M", "a", "j", "o", "r">>, <<"B">>>>,
       <<<<"B", " ", "M", "i", "n", "o", "r">>, <<"B", "m">>>>,
       <<<<"F", " ", "M", "a", "j", "o", "r">>, <<"F">>>>,
       <<<<"F", " ", "M", "i", "n", "o", "r">>, <<"F", "m">>>>,
       <<<<"D", "b", " ", "M", "a", "j", "o", "r">>, <<"D", "b">>>>,
       <<<<"D", "b", " ", "M", "i", "n", "o", "r">>, <<"C", "#", "m">>>>,
       <<<<"A", "b", " ", "M", "a", "j", "o", "r">>, <<"A", "b">>>>,
       <<<<"A", "b", " ", "M", "i", "n", "o", "r">>, <<"G", "#", "m">>>>,
       <<<<"E", "b", " ", "M", "a", "j", "o", "r">>, <<"E", "b">>>>,
       <<<<"E", "b", " ", "M", "i", "n", "o", "r">>, <<"D", "#", "m">>>>,
       <<<<"B", "b", " ", "M", "a", "j", "o", "r">>, <<"B", "b">>>>,
       <<<<"B", "b", " ", "M", "i", "n", "o", "r">>, <<"B", "b", "m">>>>,
       <<<<"F", "#", " ", "M", "a", "j", "o", "r">>, <<"F", "#">>>>,
       <<<<"F", "#", " ", "M", "i", "n", "o", "r">>, <<"F", "#", "m">>>>,
       <<<<"C", "#", " ", "M", "a", "j", "o", "r">>, <<"D", "b">>>>,
       <<<<"C", "#", " ", "M", "i", "n", "o", "r">>, <<"C", "#", "m">>>>,
       <<<<"G", "#", " ", "M", "a", "j", "o", "r">>, <<"A", "b">>>>,
       <<<<"G", "#", " ", "M", "i", "n", "o", "r">>, <<"G", "#", "m">>>> >>

\* a dict literal keeps the last value written for a key
ENHARMONIC ==
    [key \in {ENHARMONIC_ITEMS[i][1] : i \in DOMAIN ENHARMONIC_ITEMS} |->
        ENHARMONIC_ITEMS[MaxOf({i \in DOMAIN ENHARMONIC_ITEMS :
                                   ENHARMONIC_ITEMS[i][1] = key})][2]]

\* Key(_engine_id = engine_id); two Keys are equal when their ids are
Key(engine_id) == [engine_id |-> engine_id]

\* arguments and results that may be None are sequences of at most one value

\* Key.from_engine_id
FromEngineId(engine_id) ==
    IF engine_id = <<>> \/ engine_id[1] \notin DOMAIN ENGINE_TO_ALL THEN <<>>
    ELSE <<Key(engine_id[1])>>

\* Key.from_openkey
FromOpenkey(openkey) ==
    IF openkey = <<>> THEN <<>>
    ELSE IF openkey[1] \notin DOMAIN OPENKEY_TO_ENGINE THEN <<>>
    ELSE <<Key(OPENKEY_TO_ENGINE[openkey[1]])>>

\* Key.from_camelot
FromCamelot(camelot) ==
    IF camelot = <<>> THEN <<>>
    ELSE IF camelot[1] \notin DOMAIN CAMELOT_TO_ENGINE THEN <<>>
    ELSE <<Key(CAMELOT_TO_ENGINE[camelot[1]])>>

\* a faulty conversion that takes the Mixxx id for the Engine DJ id plus
\* one; C18 must not hold with it
FromMixxxIdShifted(mixxx_id) ==
    IF mixxx_id = <<>> THEN <<>>
    ELSE FromEngineId(<<mixxx_id[1] - 1>>)

\* Key.from_mixxx_id
FromMixxxId(mixxx_id) ==
    IF mixxx_id = <<>> THEN <<>>
    ELSE IF mixxx_id[1] \notin DOMAIN MIXXX_TO_ENGINE THEN <<>>
    ELSE <<Key(MIXXX_TO_ENGINE[mixxx_id[1]])>>

\* key.endswith(a) or key.endswith(b), and len(key) >= 2
EndsWithEither(key, a, b) ==
    /\ key # <<>>
    /\ key[Len(key)] = a \/ key[Len(key)] = b
    /\ Len(key) >= 2

\* the last step of from_musical: the enharmonic or alternative spelling
FromEnharmonic(key) ==
    IF key \in DOMAIN ENHARMONIC /\ ENHARMONIC[key] # <<>>
       /\ ENHARMONIC[key] \in DOMAIN MUSICAL_TO_ENGINE
    THEN <<Key(MUSICAL_TO_ENGINE[ENHARMONIC[key]])>>
    ELSE <<>>

\* a faulty conversion that knows the spellings of the table only; C19 must
\* not hold with it
FromMusicalDirectOnly(key) ==
    IF key = <<>> THEN <<>>
    ELSE IF key[1] \in DOMAIN MUSICAL_TO_ENGINE THEN <<Key(MUSICAL_TO_ENGINE[key[1]])>>
    ELSE <<>>

\* Key.from_musical: the table, then OpenKey, then Camelot, then enharmonic
FromMusical(key) ==
    IF key = <<>> THEN <<>>
    ELSE IF key[1] \in DOMAIN MUSICAL_TO_ENGINE THEN <<Key(MUSICAL_TO_ENGINE[key[1]])>>
    ELSE IF EndsWithEither(key[1], "m", "d") /\ FromOpenkey(key) # <<>> THEN FromOpenkey(key)
    ELSE IF EndsWithEither(key[1], "A", "B") /\ FromCamelot(key) # <<>> THEN FromCamelot(key)
    ELSE FromEnharmonic(key[1])

\* Key.from_rekordbox
FromRekordbox(rb_key) == FromMusical(rb_key)

\* the properties musical, camelot, openkey, mixxx_id and rekordbox of a Key
Musical(key) == <<ENGINE_TO_ALL[key.engine_id][1]>>

Camelot(key) == <<ENGINE_TO_ALL[key.engine_id][2]>>

Openkey(key) == <<ENGINE_TO_ALL[key.engine_id][3]>>

MixxxId(key) == <<ENGINE_TO_ALL[key.engine_id][4]>>

Rekordbox(key) == Musical(key)

\* the arguments of from_engine_id: None, the 24 ids and one on either side
EngineIdArguments == {<<>>} \cup {<<k>> : k \in -1..Len(ENGINE_TO_ALL_ROWS)}

\* the arguments of from_mixxx_id: None, the 24 ids and one on either side
MixxxIdArguments == {<<>>} \cup {<<k>> : k \in 0..(Len(ENGINE_TO_ALL_ROWS) + 1)}

\* strings no table holds: the empty string, a German key name, an OpenKey
\* and a Camelot number out of range, a lone suffix
UnknownStrings == {<<>>, <<"H">>, <<"1", "3", "m">>, <<"0", "A">>, <<"m">>}

\* the strings of one column of the table, None and the unknown strings
ColumnArguments(column) ==
    {<<>>} \cup {<<s>> : s \in {ENGINE_TO_ALL[k][column] : k \in DOMAIN ENGINE_TO_ALL}
                                \cup UnknownStrings}

\* the arguments of from_musical: every notation of every key, every
\* enharmonic or alternative spelling, None and the unknown strings
MusicalArguments ==
    ColumnArguments(1) \cup ColumnArguments(2) \cup ColumnArguments(3)
        \cup {<<s>> : s \in DOMAIN ENHARMONIC}

KeyInit ==
    /\ manadj = ManadjHolding(<<>>)
    /\ engine_db = FALSE
    /\ engine = EngineEmpty
    /\ rb_db = FALSE
    /\ rekordbox = RekordboxEmpty
    /\ last = NoCall
    /\ prev = NoCall
    /\ steps = 0

\* the record of a conversion and what it returned
KeyCallReturns(op, input, result) ==
    /\ steps < MaxSteps
    /\ last' = [op |-> op, input |-> input, result |-> result]
    /\ prev' = last
    /\ steps' = steps + 1
    /\ UNCHANGED <<manadj, engine, rekordbox, engine_db, rb_db>>

FromEngineIdCall ==
    \E engine_id \in EngineIdArguments :
        KeyCallReturns("from_engine_id", engine_id, FromEngineId(engine_id))

FromMusicalCall ==
    \E key \in MusicalArguments : KeyCallReturns("from_musical", key, FromMusical(key))

FromOpenkeyCall ==
    \E openkey \in ColumnArguments(3) :
        KeyCallReturns("from_openkey", openkey, FromOpenkey(openkey))

FromCamelotCall ==
    \E camelot \in ColumnArguments(2) :
        KeyCallReturns("from_camelot", camelot, FromCamelot(camelot))

FromMixxxIdCall ==
    \E mixxx_id \in MixxxIdArguments :
        KeyCallReturns("from_mixxx_id", mixxx_id, FromMixxxId(mixxx_id))

KeyNext ==
    \/ FromEngineIdCall
    \/ FromMusicalCall
    \/ FromOpenkeyCall
    \/ FromCamelotCall
    \/ FromMixxxIdCall

KeySpec == KeyInit /\ [][KeyNext]_vars

\* the call before this one made a Key of one of the 24 Engine DJ ids
MadeKey(call) == call.op = "from_engine_id" /\ call.result # <<>>

\* this call reads back the view the Key of the call before it shows
ReadsBack(op, view) == MadeKey(prev) /\ last.op = op /\ last.input = view

\* C18: for every Engine DJ id k of 0..23 the Key of k is not null, reading
\* back its musical, OpenKey, Camelot and Mixxx view gives the Key of k
\* again, and no two ids share a value of a view (each view is a bijection
\* between the 24 ids and its 24 values).
C18_ViewsRoundTrip ==
    /\ (last.op = "from_engine_id" /\ last.input # <<>> /\ last.input[1] \in 0..23)
          => last.result = <<Key(last.input[1])>>
    /\ ReadsBack("from_musical", Musical(prev.result[1])) => last.result = prev.result
    /\ ReadsBack("from_openkey", Openkey(prev.result[1])) => last.result = prev.result
    /\ ReadsBack("from_camelot", Camelot(prev.result[1])) => last.result = prev.result
    /\ ReadsBack("from_mixxx_id", MixxxId(prev.result[1])) => last.result = prev.result
    /\ (MadeKey(prev) /\ MadeKey(last) /\ prev.input # last.input)
          => /\ Musical(prev.result[1]) # Musical(last.result[1])
             /\ Openkey(prev.result[1]) # Openkey(last.result[1])
             /\ Camelot(prev.result[1]) # Camelot(last.result[1])
             /\ MixxxId(prev.result[1]) # MixxxId(last.result[1])

\* C18: the Mixxx id of the Key of an Engine DJ id other than 0 has been read
\* back
C18_Witness ==
    /\ ReadsBack("from_mixxx_id", MixxxId(prev.result[1]))
    /\ prev.input[1] > 0
    /\ last.result = prev.result

\* C19: from_musical gives a Key for every spelling of the enharmonic table,
\* the Key of the canonical spelling the table names for it; so F#m and Gbm
\* give equal Keys, and so do Db and C#.
C19_EnharmonicSpellingsAgree ==
    (last.op = "from_musical" /\ last.input # <<>> /\ last.input[1] \in DOMAIN ENHARMONIC)
        => /\ last.result # <<>>
           /\ (prev.op = "from_musical" /\ prev.input = <<ENHARMONIC[last.input[1]]>>)
                 => last.result = prev.result

\* C19: F#m and then Gbm have been converted, to one Key
C19_Witness ==
    /\ prev.op = "from_musical" /\ prev.input = << <<"F", "#", "m">> >>
    /\ last.op = "from_musical" /\ last.input = << <<"G", "b", "m">> >>
    /\ last.result = prev.result /\ last.result # <<>>

(* --------------------------- backend/beatgrid_utils -------------------- *)

\* times are counted in ticks of 1/64 s: every time below is a multiple
\* of a tick, which a float holds exactly, so the float sums of the source
\* are exact sums of ticks
TicksPerSecond == 64

\* the float num / den seconds, in ticks
Seconds(num, den) == (num * TicksPerSecond) \div den

\* the tempos whose beat interval 60.0 / bpm is a whole number of ticks
ExactBpms == {60, 120, 240}

\* Python floats are binary floating point numbers rounded to nearest, ties
\* to even; a float is held as a whole number of ticks with this many
\* significant bits (the code's doubles have 53)
Precision == 8

\* the distance between neighbouring floats at the given magnitude
RECURSIVE Ulp(_)
Ulp(magnitude) == IF magnitude < 2 ^ Precision THEN 1 ELSE 2 * Ulp(magnitude \div 2)

\* the float nearest to num / den ticks for num >= 0 and den > 0
RoundMagnitude(num, den) ==
    LET ulp == Ulp(num \div den)
        below == ((num \div den) \div ulp) * ulp
        rest == num - below * den
    IN  IF 2 * rest < ulp * den THEN below
        ELSE IF 2 * rest > ulp * den THEN below + ulp
        ELSE IF (below \div ulp) % 2 = 0 THEN below ELSE below + ulp

\* the float nearest to num / den ticks, den > 0
RoundRatio(num, den) == IF num < 0 THEN 0 - RoundMagnitude(0 - num, den) ELSE RoundMagnitude(num, den)

\* the float of a literal or of an int
Float(n) == RoundRatio(n * TicksPerSecond, 1)

\* a + b, a - b, a * b and a / b on floats
FAdd(a, b) == RoundRatio(a + b, 1)
FSub(a, b) == RoundRatio(a - b, 1)
FMul(a, b) == RoundRatio(a * b, TicksPerSecond)
FDiv(a, b) == IF b < 0 THEN RoundRatio(0 - (a * TicksPerSecond), 0 - b) ELSE RoundRatio(a * TicksPerSecond, b)

\* int(x) of a float: the whole part, rounded toward zero
IntOf(x) == IF x < 0 THEN 0 - ((0 - x) \div TicksPerSecond) ELSE x \div TicksPerSecond

\* beat_interval = 60.0 / bpm
BeatInterval(bpm) == FDiv(Float(60), Float(bpm))

\* the while loop of calculate_beats_from_tempo_changes
RECURSIVE BeatLoop(_, _, _, _, _)
BeatLoop(current_time, current_bar_position, beat_interval, time_sig_num, duration) ==
    IF ~(current_time <= duration)
    THEN [beat_times |-> <<>>, downbeat_times |-> <<>>]
    ELSE LET rest == BeatLoop(FAdd(current_time, beat_interval),
                              (current_bar_position % time_sig_num) + 1,
                              beat_interval, time_sig_num, duration)
         IN  [beat_times |-> <<current_time>> \o rest.beat_times,
              downbeat_times |-> IF current_bar_position = 1
                                 THEN <<current_time>> \o rest.downbeat_times
                                 ELSE rest.downbeat_times]

\* a faulty loop that stops at the duration instead of after it; C20 must
\* not hold with it
CalculateBeatsBeforeDuration(tempo_changes, duration) ==
    IF tempo_changes = <<>> THEN [beat_times |-> <<>>, downbeat_times |-> <<>>]
    ELSE BeatLoop(tempo_changes[1].start_time, tempo_changes[1].bar_position,
                  BeatInterval(tempo_changes[1].bpm),
                  tempo_changes[1].time_signature_num, duration - 1)

\* calculate_beats_from_tempo_changes: only the first tempo change is used
CalculateBeatsFromTempoChanges(tempo_changes, duration) ==
    IF tempo_changes = <<>> THEN [beat_times |-> <<>>, downbeat_times |-> <<>>]
    ELSE BeatLoop(tempo_changes[1].start_time, tempo_changes[1].bar_position,
                  BeatInterval(tempo_changes[1].bpm),
                  tempo_changes[1].time_signature_num, duration)

\* the tempo changes of a beatgrid: a first beat within the first second,
\* three or four beats to the bar
TempoChanges ==
    [start_time : {0, Seconds(1, 4), Seconds(1, 2)}, bpm : ExactBpms,
     time_signature_num : {3, 4}, time_signature_den : {4}, bar_position : 1..4]

\* a second tempo change, which the calculation ignores
SecondTempo ==
    [start_time |-> Seconds(1, 1), bpm |-> 240, time_signature_num |-> 3,
     time_signature_den |-> 4, bar_position |-> 1]

\* no tempo change, one, or one followed by the second one
TempoChangeLists ==
    {<<>>} \cup {<<tc>> : tc \in TempoChanges} \cup {<<tc, SecondTempo>> : tc \in TempoChanges}

\* track durations: none, a quarter second, one, two and two and a half
Durations == {0, Seconds(1, 4), Seconds(1, 1), Seconds(2, 1), Seconds(5, 2)}

BeatInit ==
    /\ manadj = ManadjHolding(<<>>)
    /\ engine_db = FALSE
    /\ engine = EngineEmpty
    /\ rb_db = FALSE
    /\ rekordbox = RekordboxEmpty
    /\ last = NoCall
    /\ prev = NoCall
    /\ steps = 0

\* the record of a beat calculation and what it returned
BeatCallReturns(tempo_changes, duration, out) ==
    /\ last' = [op |-> "calculate_beats_from_tempo_changes",
                tempo_changes |-> tempo_changes, duration |-> duration,
                beat_times |-> out.beat_times, downbeat_times |-> out.downbeat_times]
    /\ prev' = last
    /\ steps' = steps + 1
    /\ UNCHANGED <<manadj, engine, rekordbox, engine_db, rb_db>>

CalculateBeatsFromTempoChangesCall ==
    /\ steps < MaxCalls
    /\ \E tempo_changes \in TempoChangeLists, duration \in Durations :
          BeatCallReturns(tempo_changes, duration,
                          CalculateBeatsFromTempoChanges(tempo_changes, duration))

BeatNext == CalculateBeatsFromTempoChangesCall

BeatSpec == BeatInit /\ [][BeatNext]_vars

\* the call of the example: one tempo change with start_time = 0, bpm = 120,
\* time_signature_num = 4 and bar_position = 1, and duration = 2.0
CalledExample ==
    /\ last.op = "calculate_beats_from_tempo_changes"
    /\ last.duration = Seconds(2, 1)
    /\ Len(last.tempo_changes) = 1
    /\ last.tempo_changes[1].start_time = 0
    /\ last.tempo_changes[1].bpm = 120
    /\ last.tempo_changes[1].time_signature_num = 4
    /\ last.tempo_changes[1].bar_position = 1

\* C20: for one tempo change with start_time = 0, bpm = 120,
\* time_signature_num = 4 and bar_position = 1 and duration = 2.0 the
\* calculation returns beat_times = [0.0, 0.5, 1.0, 1.5] and downbeat_times =
\* [0.0].
C20_ExampleStopsBeforeDuration ==
    CalledExample =>
        /\ last.beat_times = <<0, Seconds(1, 2), Seconds(1, 1), Seconds(3, 2)>>
        /\ last.downbeat_times = <<0>>

\* C20, as the code behaves: the beat that falls on the duration is returned
\* too, and it is a downbeat: beat_times = [0.0, 0.5, 1.0, 1.5, 2.0] and
\* downbeat_times = [0.0, 2.0].
C20_ExampleIncludesDuration ==
    CalledExample =>
        /\ last.beat_times = <<0, Seconds(1, 2), Seconds(1, 1), Seconds(3, 2), Seconds(2, 1)>>
        /\ last.downbeat_times = <<0, Seconds(2, 1)>>

\* C20: the example has been calculated, and its last beat is at 2.0 s
C20_Witness ==
    /\ CalledExample
    /\ last.beat_times # <<>>
    /\ last.beat_times[Len(last.beat_times)] = Seconds(2, 1)

\* ---------------------------------------------------------------------
\* Setting a downbeat and nudging a beatgrid (backend/beatgrid_utils.py)
\* ---------------------------------------------------------------------

\* the tempo changes of generate_beatgrid_from_bpm: one 4/4 change at 0.0
GenerateBeatgridFromBpm(bpm) ==
    <<[start_time |-> Float(0), bpm |-> bpm, time_signature_num |-> 4,
       time_signature_den |-> 4, bar_position |-> 1]>>

\* set_downbeat_at_time: count whole beats back from the requested downbeat
SetDownbeatAtTime(user_downbeat_time, bpm, time_signature_num, time_signature_den) ==
    LET beat_interval == BeatInterval(bpm)
        num_beats_back == IntOf(FDiv(user_downbeat_time, beat_interval))
        first_beat_time == FSub(user_downbeat_time, FMul(Float(num_beats_back), beat_interval))
        beats_within_bar == num_beats_back % time_signature_num
        first_bar_position == IF beats_within_bar = 0 THEN 1
                              ELSE time_signature_num - beats_within_bar + 1
    IN  <<[start_time |-> first_beat_time, bpm |-> bpm,
           time_signature_num |-> time_signature_num,
           time_signature_den |-> time_signature_den,
           bar_position |-> first_bar_position]>>

\* the literal -0.1
MinStartTime == FDiv(Float(0 - 1), Float(10))

\* nudge_beatgrid: shift the first tempo change and clamp it into
\* [-0.1, track_duration]; ValueError on an empty list
NudgeBeatgrid(tempo_changes, offset_ms, track_duration) ==
    [raised |-> tempo_changes = <<>>,
     tempo_changes |->
        [i \in 1..Len(tempo_changes) |->
            IF i = 1
            THEN [tempo_changes[i] EXCEPT !.start_time =
                     MaxOf({MinStartTime, MinOf({track_duration, FAdd(@, FDiv(offset_ms, Float(1000)))})})]
            ELSE tempo_changes[i]]]

\* the float written as tenths / 10
Tenths(tenths) == RoundRatio(tenths * TicksPerSecond, 10)

\* requested downbeat times, from 1.2 s before the start to 8 s
DownbeatTimes == {Tenths(t) : t \in (0 - 12)..80}

\* tempos, two of which have a beat interval that is no whole number of ticks
GridBpms == {60, 90, 128, 130}

\* track durations: 0.3 s, 4.7 s, 6 s and 8 s
GridDurations == {Tenths(3), Tenths(47), Tenths(60), Tenths(80)}

\* nudges in milliseconds
Offsets == {Float(0), Float(50), Float(0 - 50), Float(200), Float(0 - 200), Float(8000), Float(0 - 8000)}

GridInit ==
    /\ manadj = ManadjHolding(<<>>)
    /\ engine_db = FALSE
    /\ engine = EngineEmpty
    /\ rb_db = FALSE
    /\ rekordbox = RekordboxEmpty
    /\ last = NoCall
    /\ prev = NoCall
    /\ steps = 0

\* the record of a call on the beatgrid of the track
GridCallReturns(call) ==
    /\ last' = call
    /\ prev' = last
    /\ steps' = steps + 1
    /\ UNCHANGED <<manadj, engine, rekordbox, engine_db, rb_db>>

\* the record of set_downbeat_at_time and of the beats computed from it
SetDownbeatRecord(user_downbeat_time, bpm, time_signature_num, duration, tempo_changes, out) ==
    [op |-> "set_downbeat_at_time", user_downbeat_time |-> user_downbeat_time,
     bpm |-> bpm, time_signature_num |-> time_signature_num, duration |-> duration,
     tempo_changes |-> tempo_changes,
     beat_times |-> out.beat_times, downbeat_times |-> out.downbeat_times]

\* set_downbeat_at_time on a track, followed by the beat calculation of
\* the response
SetDownbeatAtTimeCall ==
    /\ steps < MaxCalls
    /\ \E user_downbeat_time \in DownbeatTimes, bpm \in GridBpms, time_signature_num \in {3, 4}, duration \in GridDurations :
          LET tempo_changes == SetDownbeatAtTime(user_downbeat_time, bpm, time_signature_num, 4)
          IN  GridCallReturns(SetDownbeatRecord(user_downbeat_time, bpm, time_signature_num, duration, tempo_changes,
                                                CalculateBeatsFromTempoChanges(tempo_changes, duration)))

\* the record of nudge_beatgrid
NudgeRecord(input, offset_ms, duration, out) ==
    [op |-> "nudge_beatgrid", input |-> input, offset_ms |-> offset_ms,
     duration |-> duration, raised |-> out.raised, tempo_changes |-> out.tempo_changes]

\* the grids a first nudge can be given: none, a generated one, and one
\* with a second tempo change
FreshGrids ==
    {<<>>} \cup {GenerateBeatgridFromBpm(bpm) : bpm \in GridBpms}
           \cup {GenerateBeatgridFromBpm(bpm) \o <<SecondTempo>> : bpm \in GridBpms}

\* nudge_beatgrid on the grid the previous call left, or on a fresh one
NudgeBeatgridCall ==
    /\ steps < MaxCalls + 1
    /\ \E offset_ms \in Offsets :
          IF last.op \in {"set_downbeat_at_time", "nudge_beatgrid"}
          THEN GridCallReturns(NudgeRecord(last.tempo_changes, offset_ms, last.duration,
                                           NudgeBeatgrid(last.tempo_changes, offset_ms, last.duration)))
          ELSE \E input \in FreshGrids, duration \in GridDurations :
                  GridCallReturns(NudgeRecord(input, offset_ms, duration,
                                              NudgeBeatgrid(input, offset_ms, duration)))

GridNext ==
    \/ SetDownbeatAtTimeCall
    \/ NudgeBeatgridCall

GridSpec == GridInit /\ [][GridNext]_vars

\* a downbeat was requested within the track, in 4/4
RequestedWithinTrack ==
    /\ last.op = "set_downbeat_at_time"
    /\ last.time_signature_num = 4
    /\ 0 <= last.user_downbeat_time
    /\ last.user_downbeat_time <= last.duration

\* C21: the downbeats computed from set_downbeat_at_time(t, bpm, 4, 4) for a
\* time t within the track contain t
C21_SetDownbeatInverse ==
    RequestedWithinTrack => last.user_downbeat_time \in Range(last.downbeat_times)

\* a downbeat requested more than a bar into the track is among the
\* computed downbeats
C21_Witness ==
    /\ RequestedWithinTrack
    /\ Len(last.downbeat_times) > 1
    /\ last.user_downbeat_time \in Range(last.downbeat_times)
    /\ last.user_downbeat_time # last.downbeat_times[1]

\* a nudge of a grid that has a first tempo change
Nudged == last.op = "nudge_beatgrid" /\ ~last.raised

\* start_time + offset_s of the nudge
NudgedStart == FAdd(last.input[1].start_time, FDiv(last.offset_ms, Float(1000)))

\* C22: a nudge by 0 ms returns its input; the new start_time is -0.1 when
\* start_time + offset is below -0.1, track_duration when it is above
\* track_duration and start_time + offset otherwise; nothing but the first
\* start_time changes
C22_NudgeClampsAndZeroIsNoOp ==
    Nudged =>
        /\ last.offset_ms = 0 => last.tempo_changes = last.input
        /\ last.tempo_changes[1].start_time =
              IF NudgedStart < MinStartTime THEN MinStartTime
              ELSE IF NudgedStart > last.duration THEN last.duration
              ELSE NudgedStart
        /\ last.tempo_changes = [last.input EXCEPT ![1].start_time = last.tempo_changes[1].start_time]

\* a nudge to the left of a two-change grid was clamped to -0.1
C22_Witness ==
    /\ Nudged
    /\ Len(last.input) = 2
    /\ last.offset_ms < 0
    /\ NudgedStart < MinStartTime
    /\ last.tempo_changes[1].start_time = MinStartTime
    /\ last.tempo_changes[2] = last.input[2]

\* C25: set_downbeat_at_time returns the earliest beat at or after 0 for
\* every requested time: 0 <= start_time < 60 / bpm, with a bar position in
\* 1..time_signature_num
C25_FirstBeatWithinFirstInterval ==
    last.op = "set_downbeat_at_time" =>
        /\ 0 <= last.tempo_changes[1].start_time
        /\ last.tempo_changes[1].start_time < BeatInterval(last.bpm)
        /\ last.tempo_changes[1].bar_position \in 1..last.time_signature_num

\* a downbeat requested beyond the first beat gave a first beat within the
\* first interval that is no downbeat
C25_Witness ==
    /\ last.op = "set_downbeat_at_time"
    /\ last.user_downbeat_time > BeatInterval(last.bpm)
    /\ 0 <= last.tempo_changes[1].start_time
    /\ last.tempo_changes[1].start_time < BeatInterval(last.bpm)
    /\ last.tempo_changes[1].bar_position \in 2..last.time_signature_num

(* ------------------- non-destructive structure sync -------------------- *)

\* the display orders of the manadj categories or tags that the MyTag row
\* stands for: a top-level row stands for the categories of its name, any
\* other row for the tags of its name in a category named like its parent
PrimaryOrders(row) ==
    IF row.ParentID = RootID
    THEN {c.display_order : c \in {d \in Range(manadj.tag_categories) : d.name = row.Name}}
    ELSE {t.display_order : t \in
            {u \in Range(manadj.tags) :
                /\ u.name = row.Name
                /\ \E c \in Range(manadj.tag_categories), parent \in Range(rekordbox.DjmdMyTag) :
                      /\ c.id = u.category_id
                      /\ parent.ID = row.ParentID
                      /\ parent.ParentID = RootID
                      /\ parent.Name = c.name}}

\* the row is still there after the step, with nothing but Seq changed
KeptUpToSeq(row) ==
    \E i \in DOMAIN rekordbox'.DjmdMyTag :
        /\ rekordbox'.DjmdMyTag[i].ID = row.ID
        /\ rekordbox'.DjmdMyTag[i] = [row EXCEPT !.Seq = rekordbox'.DjmdMyTag[i].Seq]
        /\ \/ rekordbox'.DjmdMyTag[i].Seq = row.Seq
           \/ rekordbox'.DjmdMyTag[i].Seq \in PrimaryOrders(row)
        /\ (~last'.dry_run /\ PrimaryOrders(row) # {})
              => rekordbox'.DjmdMyTag[i].Seq \in PrimaryOrders(row)

\* C23: a Rekordbox tag sync deletes and renames no existing category or tag;
\* on an existing entry it changes at most Seq, to the display_order of the
\* manadj entry it stands for, and entries manadj does not have stay as they
\* are
C23_StructureSyncNonDestructive ==
    [][(last'.op = "sync_to_rekordbox" /\ ~last'.raised)
       => \A row \in Range(rekordbox.DjmdMyTag) : KeptUpToSeq(row)]_vars

\* the sync has moved House from Seq 7 to the display order of manadj and
\* left the tag 'Old', which manadj does not have, at Seq 8
C23_Witness ==
    /\ AfterRekordboxTagSync
    /\ \E t \in Range(rekordbox.DjmdMyTag) : t.ID = "t4" /\ t.Name = House /\ t.Seq # 7
    /\ \E t \in Range(rekordbox.DjmdMyTag) : t.ID = "t5" /\ t.Name = <<"Old">> /\ t.Seq = 8

(* ----------------- reading a playlist's chain of entities --------------- *)

\* EngineDJDatabase.get_playlist_tracks: the Track rows of the playlist,
\* along the chain from the first entity without predecessor, or in
\* insertion order when every entity has a predecessor
EngineDbGetPlaylistTracks(db, playlist_id) ==
    LET Mine(e) == e.listId = playlist_id
        entities == SelectSeq(db.PlaylistEntity, Mine)
        next_map == {entities[i].nextEntityId : i \in DOMAIN entities} \ {0}
        IsHead(e) == e.id \notin next_map
        heads == SelectSeq(entities, IsHead)
        walked == IF heads = <<>> THEN entities ELSE EngineTraverse(entities, heads[1], {})
        Stored(e) == ById(db.Track, e.trackId) # <<>>
        kept == SelectSeq(walked, Stored)
    IN  [i \in DOMAIN kept |-> ById(db.Track, kept[i].trackId)[1]]

\* the longest playlist whose pointers are enumerated
MaxEntities == 3

\* the tracks of Engine DJ, one per membership row
ChainTracks ==
    [i \in 1..(MaxEntities + 1) |->
        [id |-> 10 + i, path |-> P("/e", ToString(i)), filename |-> P("", ToString(i))]]

\* Engine DJ with the playlist 'a' whose row i holds track 10 + i and points
\* to the row next[i]: 0 ends the chain, Len(next) + 1 is the id of no row
EngineChained(next) ==
    [Track |-> ChainTracks,
     Playlist |-> << [id |-> 1, title |-> PlaylistA, parentListId |-> 0,
                      nextListId |-> 0, isPersisted |-> TRUE] >>,
     PlaylistEntity |-> [i \in DOMAIN next |->
                           [id |-> i, listId |-> 1, trackId |-> 10 + i,
                            nextEntityId |-> next[i]]]]

\* every configuration of the pointers of up to MaxEntities rows
PointerConfigurations ==
    UNION {[1..n -> 0..(n + 1)] : n \in 0..MaxEntities}

ChainInit ==
    /\ manadj = ManadjHolding(<<>>)
    /\ engine_db = TRUE
    /\ engine \in {EngineChained(next) : next \in PointerConfigurations}
    /\ rb_db = FALSE
    /\ rekordbox = RekordboxEmpty
    /\ last = NoCall
    /\ prev = NoCall
    /\ steps = 0

\* the record of a read of playlist 1: the track ids returned, in order
ChainCallReturns(op, track_ids) ==
    /\ last' = [op |-> op, track_ids |-> track_ids]
    /\ prev' = last
    /\ steps' = steps + 1
    /\ UNCHANGED <<manadj, engine, rekordbox, engine_db, rb_db>>

\* EnginePlaylistReader.get_playlist_tracks(1)
EngineGetPlaylistTracksCall ==
    /\ steps < MaxCalls
    /\ LET tracks == EngineGetPlaylistTracks(engine, 1)
       IN  ChainCallReturns("reader.get_playlist_tracks",
                            [i \in DOMAIN tracks |-> tracks[i].track_id])

\* EngineDJDatabase.get_playlist_tracks(1)
EngineDbGetPlaylistTracksCall ==
    /\ steps < MaxCalls
    /\ LET tracks == EngineDbGetPlaylistTracks(engine, 1)
       IN  ChainCallReturns("db.get_playlist_tracks",
                            [i \in DOMAIN tracks |-> tracks[i].id])

ChainNext ==
    \/ EngineGetPlaylistTracksCall
    \/ EngineDbGetPlaylistTracksCall

ChainSpec == ChainInit /\ [][ChainNext]_vars

\* the orders of the rows in which every row points to the next one and the
\* last one ends the chain
ChainOrders ==
    {order \in [DOMAIN engine.PlaylistEntity -> DOMAIN engine.PlaylistEntity] :
        /\ \A i, j \in DOMAIN order : i # j => order[i] # order[j]
        /\ \A i \in DOMAIN order :
              engine.PlaylistEntity[order[i]].nextEntityId =
                 IF i < Len(order) THEN engine.PlaylistEntity[order[i + 1]].id ELSE 0}

\* the track ids of the membership rows: along the chain when the pointers
\* form one list, in insertion order otherwise
ExpectedTrackIds ==
    IF ChainOrders # {}
    THEN LET order == CHOOSE o \in ChainOrders : TRUE
         IN  [i \in DOMAIN order |-> engine.PlaylistEntity[order[i]].trackId]
    ELSE [i \in DOMAIN engine.PlaylistEntity |-> engine.PlaylistEntity[i].trackId]

\* C24: EnginePlaylistReader.get_playlist_tracks returns every membership row
\* once, whatever the nextEntityId pointers are: in chain order when they form
\* one list, in insertion order otherwise
C24_EveryRowOnceInChainOrInsertionOrder ==
    last.op = "reader.get_playlist_tracks" => last.track_ids = ExpectedTrackIds

\* a chain stored against the insertion order was read along its pointers
C24_Witness ==
    /\ last.op = "reader.get_playlist_tracks"
    /\ Len(engine.PlaylistEntity) = MaxEntities
    /\ ChainOrders # {}
    /\ engine.PlaylistEntity[1].nextEntityId = 0
    /\ last.track_ids = ExpectedTrackIds

(* ----------------------- colours without energy sync ------------------- *)

\* C26: sync_to_rekordbox with include_energy = false changes the ColorID of
\* no Rekordbox track, whether or not the matching manadj track has an energy
C26_NoColorChangeWithoutEnergySync ==
    [][(last'.op = "sync_to_rekordbox" /\ ~last'.include_energy)
       => \A c \in Range(rekordbox.DjmdContent) :
             \E d \in Range(rekordbox'.DjmdContent) : d.ID = c.ID /\ d.ColorID = c.ColorID]_vars

\* a sync without energy has written to a library where the track matched by
\* an energy-carrying manadj track exists and a coloured track kept its colour
C26_Witness ==
    /\ AfterRekordboxTagSync
    /\ ~last.include_energy
    /\ \E t \in Range(manadj.tracks) : HasEnergy(t) /\ RbTargets(t) # {}
    /\ \E c \in Range(rekordbox.DjmdContent) : c.ColorID = "5"

(* ------------------- positions in a manadj playlist -------------------- *)

\* crud.add_track_to_playlist; position is <<>> for None; returned is FALSE
\* when the playlist does not exist
AddTrackToPlaylist(db, playlist_id, track_id, position) ==
    LET Mine(r) == r.playlist_id = playlist_id
        mine == SelectSeq(db.playlist_tracks, Mine)
        max_position == IF mine = <<>> THEN <<>>
                        ELSE <<MaxOf({mine[i].position : i \in DOMAIN mine})>>
        \* (max_position or -1) + 1: None and 0 both count as false
        appended == (IF max_position = <<>> \/ max_position = <<0>> THEN 0 - 1
                     ELSE max_position[1]) + 1
        shifted == [i \in DOMAIN db.playlist_tracks |->
                      IF /\ position # <<>>
                         /\ db.playlist_tracks[i].playlist_id = playlist_id
                         /\ db.playlist_tracks[i].position >= position[1]
                      THEN [db.playlist_tracks[i] EXCEPT !.position = @ + 1]
                      ELSE db.playlist_tracks[i]]
    IN  IF ById(db.playlists, playlist_id) = <<>> THEN [db |-> db, returned |-> FALSE]
        ELSE [db |-> [db EXCEPT !.playlist_tracks =
                        Append(shifted,
                               [id |-> NextId(db.playlist_tracks), playlist_id |-> playlist_id,
                                track_id |-> track_id,
                                position |-> IF position = <<>> THEN appended
                                             ELSE position[1]])],
              returned |-> TRUE]

\* crud.remove_track_from_playlist
RemoveTrackFromPlaylist(db, playlist_id, playlist_track_id) ==
    LET Hit(r) == r.id = playlist_track_id /\ r.playlist_id = playlist_id
        playlist_track == SelectSeq(db.playlist_tracks, Hit)
        Others(r) == r.id # playlist_track_id
        left == SelectSeq(db.playlist_tracks, Others)
    IN  IF playlist_track = <<>> THEN [db |-> db, returned |-> FALSE]
        ELSE [db |-> [db EXCEPT !.playlist_tracks =
                        [i \in DOMAIN left |->
                           IF /\ left[i].playlist_id = playlist_id
                              /\ left[i].position > playlist_track[1].position
                           THEN [left[i] EXCEPT !.position = @ - 1]
                           ELSE left[i]]],
              returned |-> TRUE]

\* the number of additions and removals in a run
MaxEdits == 4

\* manadj with the empty playlist 'a'
PositionInit ==
    /\ manadj = ManadjHolding(<< <<>> >>)
    /\ engine_db = FALSE
    /\ engine = EngineEmpty
    /\ rb_db = FALSE
    /\ rekordbox = RekordboxEmpty
    /\ last = NoCall
    /\ prev = NoCall
    /\ steps = 0

\* the library after an edit of a playlist, and the record of the call
EditReturns(op, position, new_id, out) ==
    /\ manadj' = out.db
    /\ last' = [op |-> op, position |-> position, new_id |-> new_id, returned |-> out.returned]
    /\ prev' = last
    /\ steps' = steps + 1
    /\ UNCHANGED <<engine, rekordbox, engine_db, rb_db>>

\* the rows of playlist 1
EditedRows == LET Mine(r) == r.playlist_id = 1 IN SelectSeq(manadj.playlist_tracks, Mine)

\* add_track_to_playlist with position None or 0 <= position <= length, on
\* the playlist or on one that does not exist
AddTrackToPlaylistCall ==
    /\ steps < MaxEdits
    /\ \E playlist_id \in {1, 2}, track_id \in {1, 2} :
       \E position \in {<<>>} \cup {<<p>> : p \in 0..Len(EditedRows)} :
          EditReturns("add_track_to_playlist", position, NextId(manadj.playlist_tracks),
                      AddTrackToPlaylist(manadj, playlist_id, track_id, position))

\* remove_track_from_playlist of a row of the playlist or of no row
RemoveTrackFromPlaylistCall ==
    /\ steps < MaxEdits
    /\ \E playlist_track_id \in 1..NextId(manadj.playlist_tracks) :
          EditReturns("remove_track_from_playlist", <<>>, 0,
                      RemoveTrackFromPlaylist(manadj, 1, playlist_track_id))

PositionNext ==
    \/ AddTrackToPlaylistCall
    \/ RemoveTrackFromPlaylistCall

PositionSpec == PositionInit /\ [][PositionNext]_vars

\* the track was appended by the last call
Appended == last.op = "add_track_to_playlist" /\ last.position = <<>> /\ last.returned

\* C27: after any additions (at the end or at a position up to the length)
\* and removals the positions of the playlist's rows are 0..n-1 without
\* duplicates, and a track added with position None is the last one
C27_PositionsGapFree ==
    /\ \A p \in 0..(Len(EditedRows) - 1) :
          Cardinality({i \in DOMAIN EditedRows : EditedRows[i].position = p}) = 1
    /\ Appended => \E i \in DOMAIN EditedRows :
                      /\ EditedRows[i].id = last.new_id
                      /\ EditedRows[i].position = Len(EditedRows) - 1

\* a third track was appended after an insertion at the front and the
\* positions are 0, 1, 2
C27_Witness ==
    /\ Appended
    /\ Len(EditedRows) = 3
    /\ EditedRows[1].position # 0
    /\ {EditedRows[i].position : i \in DOMAIN EditedRows} = 0..2

(* ----------------------------- waveform worker ------------------------- *)

\* the first track without a waveform: Track outer-joined to Waveform,
\* filtered on Waveform.id == None, .first() in table order; <<>> for None
NextTrackWithoutWaveform(db) ==
    LET Without(t) == \A i \in DOMAIN db.waveforms : db.waveforms[i].track_id # t.id
        tracks == SelectSeq(db.tracks, Without)
    IN  IF tracks = <<>> THEN <<>> ELSE <<tracks[1]>>

\* WaveformWorker._process_next_track: one track per iteration; a missing
\* file and a failed generation leave the library as it was
ProcessNextTrack(db) ==
    LET track == NextTrackWithoutWaveform(db)
    IN  IF track = <<>> THEN [db |-> db, track_id |-> 0, outcome |-> "idle"]
        ELSE IF ~track[1].on_disk
        THEN [db |-> db, track_id |-> track[1].id, outcome |-> "file not found"]
        ELSE IF ~track[1].decodable
        THEN [db |-> db, track_id |-> track[1].id, outcome |-> "failed"]
        ELSE [db |-> [db EXCEPT !.waveforms = Append(@, [track_id |-> track[1].id])],
              track_id |-> track[1].id, outcome |-> "generated"]

\* the size of the library the worker runs on
MaxWorkerTracks == 3

\* libraries of one to MaxWorkerTracks tracks: the file of a track is on disk
\* or not, can be decoded or not, and some tracks have a waveform already
WorkerLibraries ==
    UNION {
        {[tracks |-> [i \in 1..n |-> [id |-> i, on_disk |-> on_disk[i],
                                      decodable |-> on_disk[i] /\ decodable[i]]],
          waveforms |-> LET Done(w) == w.track_id \in done
                        IN  SelectSeq([i \in 1..n |-> [track_id |-> i]], Done)] :
            on_disk \in [1..n -> BOOLEAN], decodable \in [1..n -> BOOLEAN],
            done \in SUBSET (1..n)} : n \in 1..MaxWorkerTracks}

WorkerInit ==
    /\ manadj \in WorkerLibraries
    /\ engine_db = FALSE
    /\ engine = EngineEmpty
    /\ rb_db = FALSE
    /\ rekordbox = RekordboxEmpty
    /\ last = NoCall
    /\ prev = NoCall
    /\ steps = 0

\* the call of _process_next_track in an iteration of
\* WaveformWorker._worker_loop; steps is the position of the loop: 0 before
\* the call, 1 between the call and the end of the sleep
ProcessNextTrackCall ==
    LET out == ProcessNextTrack(manadj)
    IN  /\ steps = 0
        /\ manadj' = out.db
        /\ last' = [op |-> "_process_next_track", track_id |-> out.track_id,
                    outcome |-> out.outcome]
        /\ prev' = last
        /\ steps' = 1
        /\ UNCHANGED <<engine, rekordbox, engine_db, rb_db>>

\* time.sleep(check_interval) at the end of the iteration: the loop goes
\* round to the next call
WorkerSleep ==
    /\ steps = 1
    /\ steps' = 0
    /\ UNCHANGED <<manadj, engine, rekordbox, engine_db, rb_db, last, prev>>

WorkerNext == ProcessNextTrackCall \/ WorkerSleep

\* the loop runs for as long as the worker is running
WorkerSpec == WorkerInit /\ [][WorkerNext]_vars /\ WF_vars(WorkerNext)

HasWaveform(id) == \E i \in DOMAIN manadj.waveforms : manadj.waveforms[i].track_id = id

\* the track has no waveform, its file exists and can be decoded
AwaitsWaveform(id) ==
    /\ ~HasWaveform(id)
    /\ \E i \in DOMAIN manadj.tracks :
          /\ manadj.tracks[i].id = id
          /\ manadj.tracks[i].on_disk
          /\ manadj.tracks[i].decodable

\* C28: while the worker runs, every track without a waveform whose file
\* exists gets a waveform eventually, whatever other tracks without waveform
\* lack their file or fail to be generated
C28_ReadyTracksGetWaveforms ==
    \A id \in 1..MaxWorkerTracks : AwaitsWaveform(id) ~> HasWaveform(id)

\* the worker has generated the waveform of a track in a library where a
\* later track lacks its file and has no waveform
C28_Witness ==
    /\ last.op = "_process_next_track"
    /\ last.outcome = "generated"
    /\ \E i \in DOMAIN manadj.tracks :
          /\ manadj.tracks[i].id > last.track_id
          /\ ~manadj.tracks[i].on_disk
          /\ ~HasWaveform(manadj.tracks[i].id)

(* ------------------- playlist names across a sync ---------------------- *)

\* names a manadj playlist can carry: nested with and without blanks around
\* the separator, and with a leading blank
PlaylistANoBlanks == <<"a", ">", "b">>

PlaylistLeadingBlank == <<" ", "c">>

SourceNames == {PlaylistAB, PlaylistANoBlanks, PlaylistLeadingBlank}

\* manadj with the playlist 'a' and a second playlist of the given name
ManadjNamed(name) == [ManadjOne EXCEPT !.playlists[2].name = name]

NameInit ==
    /\ manadj \in {ManadjNamed(name) : name \in SourceNames}
    /\ engine_db \in BOOLEAN
    /\ engine \in IF engine_db THEN EngineStates ELSE {EngineEmpty}
    /\ rb_db = TRUE
    /\ rekordbox \in RekordboxStates
    /\ last = NoCall
    /\ prev = NoCall
    /\ steps = 0

\* sync_playlist_to_target of a manadj playlist into Engine DJ or Rekordbox
SyncNamedPlaylistCall ==
    /\ steps < MaxSteps
    /\ \E i \in DOMAIN manadj.playlists, target \in {"engine", "rekordbox"},
          ignore_missing_tracks \in BOOLEAN, dry_run \in BOOLEAN :
          PlaylistSyncReturns(
              SyncPlaylistToTarget(manadj, engine, rekordbox, engine_db, rb_db,
                  manadj.playlists[i].name, "manadj", target, ignore_missing_tracks,
                  dry_run, FALSE),
              [NoCall EXCEPT !.op = "sync_playlist_to_target",
                             !.playlist_name = manadj.playlists[i].name,
                             !.source = "manadj", !.target = target,
                             !.ignore_missing_tracks = ignore_missing_tracks,
                             !.dry_run = dry_run])
    /\ prev' = last
    /\ steps' = steps + 1
    /\ UNCHANGED <<engine_db, rb_db>>

NameNext == SyncNamedPlaylistCall

NameSpec == NameInit /\ [][NameNext]_vars

\* what the reader of the hierarchical target lists
TargetList(e, r, target) ==
    IF target = "engine" THEN EngineGetAllPlaylists(e) ELSE RekordboxGetAllPlaylists(r)

\* the playlists of the list that carry the flattened name
Carrying(playlists, name) == {i \in DOMAIN playlists : playlists[i].name = name}

\* the flattened name is that of an ancestor level of the name
IsAncestorName(ancestor, name) ==
    /\ Len(ancestor) + 3 <= Len(name)
    /\ SubSeq(name, 1, Len(ancestor) + 3) = ancestor \o <<" ", ">", " ">>

\* C30: after a successful sync_playlist_to_target of the name N into Engine
\* DJ or Rekordbox with dry_run = false the target's reader lists a playlist
\* whose flattened name is N, and an ancestor level the target already had
\* is reused: it is not created again and keeps its tracks
C30_NameSurvivesSync ==
    [][(SucceedsWriting /\ last'.target \in {"engine", "rekordbox"})
       => LET before == TargetList(engine, rekordbox, last'.target)
              after == TargetList(engine', rekordbox', last'.target)
          IN  /\ Carrying(after, last'.playlist_name) # {}
              /\ \A i \in DOMAIN before :
                    IsAncestorName(before[i].name, last'.playlist_name)
                    => /\ Cardinality(Carrying(after, before[i].name))
                            = Cardinality(Carrying(before, before[i].name))
                       /\ \E j \in DOMAIN after :
                             /\ after[j].source_id = before[i].source_id
                             /\ after[j] = before[i]]_vars

\* 'a > b' was written into a Rekordbox library that had the ancestor 'a',
\* and the reader lists 'a > b'
C30_Witness ==
    /\ last.op = "sync_playlist_to_target" /\ last.target = "rekordbox"
    /\ last.playlist_name = PlaylistAB
    /\ ~last.dry_run /\ ~last.raised /\ last.result.success
    /\ Carrying(RekordboxGetAllPlaylists(rekordbox), PlaylistAB) # {}
    /\ Carrying(RekordboxGetAllPlaylists(rekordbox), PlaylistA) # {}

====
